---- MODULE Spec2Model ----
(***************************************************************************)
(* Model of MCPClient (fi-mcp-project/flask-backend/mcp_client.py): the    *)
(* per-server session maps pending_auth / authenticated_sessions, the HTTP *)
(* tool call, the authentication callback, expiry, and the resolution of   *)
(* prefixed tool names.                                                    *)
(*                                                                         *)
(* Strings that the code takes apart are modelled by their parts:          *)
(*   - a server, tool or function name is the sequence of its underscore-  *)
(*     free tokens, "fi_mcp_extra" = <<"fi","mcp","extra">>; joining with  *)
(*     "_" is Join, str.startswith(name + "_") is StartsWithPrefix;        *)
(*   - a session id "mcp-session-<uuid>" is <<"mcp-session", n>>, n the    *)
(*     n-th uuid4 drawn;                                                   *)
(*   - a URL is a record of scheme, host labels, port, path and the value  *)
(*     of its token query parameter.                                       *)
(* Python dicts are records; d.get(k) is Get(d, k).                         *)
(***************************************************************************)
EXTENDS Integers, Sequences, FiniteSets, TLC

\* ------------------------------------------------------------------ bounds
MaxIds == 2          \* uuid4 values drawn in one run
MaxTicks == 3        \* clock advances in one run
MaxTextLen == 4       \* JSON tokens in the text of one content item
MaxChildren == 2      \* subprocesses spawned in one run

\* ------------------------------------------------------- program constants
session_timeout == 3600

\* Python's None, where a string, a session id or a name is expected
None == "None"
NoId == <<"None", 0>>
NoName == <<>>

\* ------------------------------------------------------------ configuration
FI_MCP == <<"fi", "mcp">>
FI_MCP_EXTRA == <<"fi", "mcp", "extra">>
ServerNames == {FI_MCP, FI_MCP_EXTRA}

\* mcp_config.json "mcpServers": the same two HTTP servers in either key order
Configs == {<<FI_MCP, FI_MCP_EXTRA>>, <<FI_MCP_EXTRA, FI_MCP>>}

\* the key order under which every server is reached by its own prefix
LongestFirst == <<FI_MCP_EXTRA, FI_MCP>>

\* server_config["url"]
ServerUrl(s) ==
    IF s = FI_MCP
    THEN [scheme |-> "http", host |-> <<"localhost">>, port |-> "8484",
          path |-> "/mcp/stream", token |-> NoId]
    ELSE [scheme |-> "https", host |-> <<"mcp", "fi", "money">>, port |-> "8080",
          path |-> "/mcp/stream", token |-> NoId]

PhoneNumbers == {"p1"}
ToolNames == {<<"fetch", "net", "worth">>}

\* --------------------------------------------------------------- dict helpers
Get(d, k) == IF k \in DOMAIN d THEN d[k] ELSE None

Without(m, k) == [x \in DOMAIN m \ {k} |-> m[x]]

With(m, k, v) == [x \in DOMAIN m \cup {k} |-> IF x = k THEN v ELSE m[x]]

EmptyMap == [x \in {} |-> None]

\* ----------------------------------------------------------------- strings
\* f"mcp-session-{uuid.uuid4()}": the n-th uuid drawn
MintId(n) == <<"mcp-session", n>>

\* re.search(r'token=(mcp-session-[^&]+)', login_url): the matched group or None
TokenMatch(url) ==
    IF url.token[1] = "mcp-session" THEN url.token ELSE NoId

\* f"{base_url}/wealth-mcp-login?token={session_id}", base_url = mcp_url.replace("/mcp/stream", "")
InvalidSessionLoginUrl(s, sid) ==
    [scheme |-> ServerUrl(s).scheme, host |-> ServerUrl(s).host,
     port |-> ServerUrl(s).port, path |-> "/wealth-mcp-login", token |-> sid]

\* re.search(r'://(?:mcp\.)?([^:/]+)', mcp_url).group(1)
BaseDomain(s) ==
    LET h == ServerUrl(s).host
    IN IF Len(h) > 1 /\ Head(h) = "mcp" THEN Tail(h) ELSE h

\* f"https://{base_domain}/wealth-mcp-login?token={session_id}"
FallbackLoginUrl(s, sid) ==
    [scheme |-> "https", host |-> BaseDomain(s), port |-> "",
     path |-> "/wealth-mcp-login", token |-> sid]

\* ----------------------------------------------------------------- variables
VARIABLES
    servers,                 \* self.servers: the configured names, in key order
    pending_auth,            \* self.pending_auth
    authenticated_sessions,  \* self.authenticated_sessions
    now,                     \* time.time()
    ticks,                   \* clock advances so far
    uuids,                   \* uuid4 values drawn so far
    unswept,                 \* history: server -> creation time of its latest authenticated
                             \* session, kept until a cleanup call made after it expired
    issued,                  \* history: server -> what generate_auth_session last returned
                             \* for it, kept until an authentication of it succeeds
    ret,                     \* the last call: its arguments, the maps before it, its result
    sessions,                \* self.sessions: the stdio servers with a ClientSession
    connected_servers,       \* self.connected_servers: the names marked connected
    server_processes,        \* self.server_processes: name -> state of the Popen handle
    children,                \* the subprocesses Popen has spawned, in spawning order
    pipe,                    \* per stdio session: the requests written and not yet answered
    calls                    \* per caller: the call it is inside, its position and its locals

\* the connection state and the callers inside a call
connection_vars == <<sessions, connected_servers, server_processes, children, pipe, calls>>

vars == <<servers, pending_auth, authenticated_sessions, now, ticks, uuids, unswept,
          issued, ret, connection_vars>>

\* ------------------------------------------------------------------- expiry
\* _is_session_expired with the comparison turned round
IsSessionExpiredReversed(session_info, t) ==
    (t - session_info.timestamp) < session_timeout

\* _is_session_expired (every record the code stores has a timestamp)
IsSessionExpired(session_info, t) ==
    (t - session_info.timestamp) > session_timeout

PendingRecord(sid, phone, t) ==
    [session_id |-> sid, phone_number |-> phone,
     status |-> "pending_auth_redirect", timestamp |-> t]

AuthRecord(sid, phone, t) ==
    [session_id |-> sid, phone_number |-> phone, status |-> "authenticated",
     timestamp |-> t, expires_in |-> session_timeout]

\* is_authenticated: the returned value
IsAuthenticatedValue(auth, s, t) ==
    IF s \notin DOMAIN auth THEN FALSE
    ELSE IF IsSessionExpired(auth[s], t) THEN FALSE
    ELSE auth[s].status = "authenticated"

\* is_authenticated: authenticated_sessions after the call
IsAuthenticatedMap(auth, s, t) ==
    IF s \in DOMAIN auth /\ IsSessionExpired(auth[s], t) THEN Without(auth, s) ELSE auth

\* get_authentication_status: the returned value
GetAuthenticationStatusValue(auth, pend, s, t) ==
    IF s \in DOMAIN auth
    THEN IF IsSessionExpired(auth[s], t)
         THEN [status |-> "expired", message |-> "Session expired"]
         ELSE auth[s]
    ELSE IF s \in DOMAIN pend THEN pend[s]
    ELSE [status |-> "not_authenticated"]

\* get_authentication_status: authenticated_sessions after the call
GetAuthenticationStatusMap(auth, s, t) ==
    IF s \in DOMAIN auth /\ IsSessionExpired(auth[s], t) THEN Without(auth, s) ELSE auth

\* cleanup_expired_sessions: expired_servers
ExpiredServers(auth, t) == {s \in DOMAIN auth : IsSessionExpired(auth[s], t)}

\* cleanup_expired_sessions that counts the expired records and deletes none
CleanupMapKeepsAll(auth, t) == auth

\* cleanup_expired_sessions: authenticated_sessions after the call
CleanupMap(auth, t) == [s \in DOMAIN auth \ ExpiredServers(auth, t) |-> auth[s]]

\* ------------------------------------------------------- the remote server
\* What the HTTP server may answer to one tools/call POST:
\*   invalid_session  400, body contains "Invalid session ID"
\*   login_required   200, content[0].text is JSON {"status":"login_required","login_url":..};
\*                    the login_url's token is the Mcp-Session-Id received ("echo")
\*                    or a token of the server's own that is no mcp-session id ("foreign")
\*   data             200, content[0].text is JSON data
\*   text             200, content[0].text is the token sequence given with it
\*   rpc_error        200, JSON-RPC "error" field
\*   timeout          requests.exceptions.Timeout
\*   network_error    any other exception of the POST or of raise_for_status
\*                    (ConnectionError, another 4xx/5xx status)
UrlShapes == {"echo", "foreign"}

Responses ==
    {[kind |-> k, shape |-> None] :
        k \in {"invalid_session", "data", "rpc_error", "timeout", "network_error"}}
    \cup {[kind |-> "login_required", shape |-> u] : u \in UrlShapes}

EmptyUrl == [scheme |-> "", host |-> <<>>, port |-> "", path |-> "", token |-> NoId]

\* the login_url a login_required reply carries, for the Mcp-Session-Id it was sent
RemoteLoginUrl(s, shape, sent) ==
    IF shape = "echo" THEN InvalidSessionLoginUrl(s, sent)
    ELSE InvalidSessionLoginUrl(s, <<"tok", 0>>)

\* Python values: a dict or a str
Dict(d) == [py |-> "dict", d |-> d]

Str(x) == [py |-> "str", s |-> x]

\* --------------------------------------------------------- _call_http_tool
\* session selection that looks at pending_auth before authenticated_sessions
SelectSessionPendingFirst(pend, auth, n, s, dummy, t) ==
    LET auth1 == IF dummy THEN auth ELSE IsAuthenticatedMap(auth, s, t)
    IN IF s \in DOMAIN pend
       THEN [sent |-> pend[s].session_id, pending |-> pend, auth |-> auth1,
             uuids |-> n, branch |-> "pending"]
       ELSE IF ~dummy /\ IsAuthenticatedValue(auth, s, t)
       THEN [sent |-> auth1[s].session_id, pending |-> pend, auth |-> auth1,
             uuids |-> n, branch |-> "authenticated"]
       ELSE [sent |-> MintId(n + 1),
             pending |-> With(pend, s, PendingRecord(MintId(n + 1), "unknown", t)),
             auth |-> auth1, uuids |-> n + 1, branch |-> "minted"]

\* session selection at the start of _call_http_tool (lines 561-585):
\* the Mcp-Session-Id sent, and the maps and uuid count after it
SelectSession(pend, auth, n, s, dummy, t) ==
    LET auth1 == IF dummy THEN auth ELSE IsAuthenticatedMap(auth, s, t)
    IN IF ~dummy /\ IsAuthenticatedValue(auth, s, t)
       THEN [sent |-> auth1[s].session_id, pending |-> pend, auth |-> auth1,
             uuids |-> n, branch |-> "authenticated"]
       ELSE IF s \in DOMAIN pend
       THEN [sent |-> pend[s].session_id, pending |-> pend, auth |-> auth1,
             uuids |-> n, branch |-> "pending"]
       ELSE [sent |-> MintId(n + 1),
             pending |-> With(pend, s, PendingRecord(MintId(n + 1), "unknown", t)),
             auth |-> auth1, uuids |-> n + 1, branch |-> "minted"]

\* the 400 branch minting an id for the login URL whether or not one is pending
InvalidSessionReplyAlwaysMints(pend, n, s, t) ==
    LET fresh == s \notin DOMAIN pend
        sid == MintId(n + 1)
    IN [pending |-> IF fresh THEN With(pend, s, PendingRecord(sid, "unknown", t))
                    ELSE pend,
        uuids |-> IF fresh THEN n + 1 ELSE n,
        result |-> [content |-> Dict([status |-> "login_required",
                                      login_url |-> InvalidSessionLoginUrl(s, sid),
                                      message |-> "Please complete authentication using the provided link",
                                      session_id |-> sid]),
                    success |-> TRUE]]

\* the 400 "Invalid session ID" branch (lines 598-628)
InvalidSessionReply(pend, n, s, t) ==
    LET fresh == s \notin DOMAIN pend
        sid == IF fresh THEN MintId(n + 1) ELSE pend[s].session_id
    IN [pending |-> IF fresh THEN With(pend, s, PendingRecord(sid, "unknown", t))
                    ELSE pend,
        uuids |-> IF fresh THEN n + 1 ELSE n,
        result |-> [content |-> Dict([status |-> "login_required",
                                      login_url |-> InvalidSessionLoginUrl(s, sid),
                                      message |-> "Please complete authentication using the provided link",
                                      session_id |-> sid]),
                    success |-> TRUE]]

\* ------------------------------------------------------------ json.loads
\* The text of a content item is the sequence of its JSON tokens: the
\* punctuation, the number 1, a key with its colon ("a:" is "a": in the text),
\* and "x", a letter outside every JSON literal (the text "plain" is <<"x">>).
JsonTokens == {"{", "}", "[", "]", ",", "a:", "1", "x"}

\* the Python values json.loads builds
PyInt == [py |-> "int", n |-> 1]

PyList(items) == [py |-> "list", items |-> items]

\* json.JSONDecodeError
DecodeError(i) == [ok |-> FALSE, val |-> PyList(<<>>), pos |-> i]

Decoded(v, i) == [ok |-> TRUE, val |-> v, pos |-> i]

\* the decoder at position i of the text: a value, the rest of an array after
\* "[", the rest of an object after "{" (a repeated key keeps its last value)
RECURSIVE ParseValue(_, _), ParseElements(_, _, _), ParseMembers(_, _, _)
ParseValue(tx, i) ==
    IF i > Len(tx) THEN DecodeError(i)
    ELSE CASE tx[i] = "1" -> Decoded(PyInt, i + 1)
           [] tx[i] = "[" ->
                IF i + 1 <= Len(tx) /\ tx[i + 1] = "]"
                THEN Decoded(PyList(<<>>), i + 2)
                ELSE ParseElements(tx, i + 1, <<>>)
           [] tx[i] = "{" ->
                IF i + 1 <= Len(tx) /\ tx[i + 1] = "}"
                THEN Decoded([py |-> "dict", d |-> EmptyMap], i + 2)
                ELSE ParseMembers(tx, i + 1, EmptyMap)
           [] OTHER -> DecodeError(i)

ParseElements(tx, i, acc) ==
    LET v == ParseValue(tx, i)
    IN IF ~v.ok \/ v.pos > Len(tx) THEN DecodeError(v.pos)
       ELSE IF tx[v.pos] = "," THEN ParseElements(tx, v.pos + 1, Append(acc, v.val))
       ELSE IF tx[v.pos] = "]" THEN Decoded(PyList(Append(acc, v.val)), v.pos + 1)
       ELSE DecodeError(v.pos)

ParseMembers(tx, i, acc) ==
    IF i > Len(tx) \/ tx[i] # "a:" THEN DecodeError(i)
    ELSE LET v == ParseValue(tx, i + 1)
         IN IF ~v.ok \/ v.pos > Len(tx) THEN DecodeError(v.pos)
            ELSE IF tx[v.pos] = ","
            THEN ParseMembers(tx, v.pos + 1, With(acc, "a", v.val))
            ELSE IF tx[v.pos] = "}"
            THEN Decoded([py |-> "dict", d |-> With(acc, "a", v.val)], v.pos + 1)
            ELSE DecodeError(v.pos)

\* a decoder that stops after the first value and ignores what follows it
JsonLoadsFirstValue(tx) ==
    LET v == ParseValue(tx, 1)
    IN IF v.ok THEN v ELSE DecodeError(v.pos)

\* json.loads(text): the whole text is one value, or JSONDecodeError
JsonLoads(tx) ==
    LET v == ParseValue(tx, 1)
    IN IF v.ok /\ v.pos = Len(tx) + 1 THEN v ELSE DecodeError(v.pos)

\* lines 652-665: the decoded text, or the text itself when it does not decode
TextContent(tx) ==
    LET v == JsonLoads(tx)
    IN IF v.ok THEN v.val ELSE [py |-> "str", s |-> tx]

\* the result _call_http_tool builds from a reply that is not the 400 sentinel
\* (lines 630-686)
ReplyResult(s, resp, sent) ==
    CASE resp.kind = "login_required" ->
            [content |-> Dict([status |-> "login_required",
                               login_url |-> RemoteLoginUrl(s, resp.shape, sent),
                               message |-> "login"]),
             success |-> TRUE]
      [] resp.kind = "data" ->
            [content |-> Dict([netWorth |-> "1"]), success |-> TRUE]
      [] resp.kind = "text" ->
            [content |-> TextContent(resp.text), success |-> TRUE]
      [] resp.kind = "rpc_error" ->
            [content |-> Str("MCP Error"), success |-> FALSE, error |-> "rpc"]
      [] resp.kind = "timeout" ->
            [content |-> Str("Timeout calling tool"), success |-> FALSE,
             error |-> "Request timeout"]
      [] OTHER ->
            [content |-> Str("Error calling tool"), success |-> FALSE,
             error |-> resp.kind]

\* the requests.post calls one _call_http_tool makes: line 592 is the only one,
\* it is in no loop, and the handlers of lines 673-686 return without calling
\* it again, whatever the outcome resp of the POST is
PostAttempts(resp) == 1

\* a 400 branch that also drops the authenticated record the server rejected
HandleReplyDropsRejected(pend, auth, n, s, resp, sent, t) ==
    IF resp.kind = "invalid_session"
    THEN LET r == InvalidSessionReply(pend, n, s, t)
         IN [pending |-> r.pending, auth |-> Without(auth, s), uuids |-> r.uuids,
             sent |-> sent, result |-> r.result]
    ELSE [pending |-> pend, auth |-> auth, uuids |-> n,
          sent |-> sent, result |-> ReplyResult(s, resp, sent)]

\* _call_http_tool once the POST came back (lines 594-686): sent is the
\* Mcp-Session-Id the request carried
HandleReply(pend, auth, n, s, resp, sent, t) ==
    IF resp.kind = "invalid_session"
    THEN LET r == InvalidSessionReply(pend, n, s, t)
         IN [pending |-> r.pending, auth |-> auth, uuids |-> r.uuids,
             sent |-> sent, result |-> r.result]
    ELSE [pending |-> pend, auth |-> auth, uuids |-> n,
          sent |-> sent, result |-> ReplyResult(s, resp, sent)]

\* _call_http_tool(server_name, tool_name, arguments, use_dummy_session)
CallHttpTool(pend, auth, n, s, dummy, resp, t) ==
    LET sel == SelectSession(pend, auth, n, s, dummy, t)
    IN HandleReply(sel.pending, sel.auth, sel.uuids, s, resp, sel.sent, t)

\* --------------------------------------------------- generate_auth_session
\* the test of lines 266-269 on the probing call's result
IsLoginRequired(result) ==
    /\ result.content.py = "dict"
    /\ Get(result.content.d, "status") = "login_required"
    /\ "login_url" \in DOMAIN result.content.d
    /\ result.content.d.login_url # EmptyUrl

\* generate_auth_session once the probing call r came back (lines 266-336)
StoreAuthSession(r, s, phone, t) ==
    IF IsLoginRequired(r.result)
    THEN LET login_url == r.result.content.d.login_url
             m == TokenMatch(login_url)
             sid == IF m # NoId THEN m ELSE MintId(r.uuids + 1)
         IN [pending |-> With(r.pending, s, PendingRecord(sid, phone, t)),
             auth |-> r.auth,
             uuids |-> IF m # NoId THEN r.uuids ELSE r.uuids + 1,
             sent |-> r.sent,
             transport |-> r.result,
             result |-> [success |-> TRUE, session_id |-> sid,
                         login_url |-> login_url]]
    ELSE LET sid == MintId(r.uuids + 1)
         IN [pending |-> With(r.pending, s, PendingRecord(sid, phone, t)),
             auth |-> r.auth,
             uuids |-> r.uuids + 1,
             sent |-> r.sent,
             transport |-> r.result,
             result |-> [success |-> TRUE, session_id |-> sid,
                         login_url |-> FallbackLoginUrl(s, sid)]]

\* generate_auth_session(server_name, phone_number)
GenerateAuthSession(pend, auth, n, s, phone, resp, t) ==
    StoreAuthSession(CallHttpTool(pend, auth, n, s, TRUE, resp, t), s, phone, t)

\* ---------------------------------------------- mark_session_authenticated
\* what the POST to <base_url>/login may do
RegisterReplies == {"ok", "rejected", "raises"}

\* mark_session_authenticated without the session id comparison of lines 357-362
MarkSessionAuthenticatedAnyId(pend, auth, s, session_id, reg, t) ==
    LET fail(msg) == [pending |-> pend, auth |-> auth,
                      result |-> [success |-> FALSE, error |-> msg]]
    IN IF s \notin DOMAIN pend
       THEN fail("No pending authentication session found")
       ELSE LET sid == IF session_id = NoId THEN pend[s].session_id ELSE session_id
            IN IF reg \in {"rejected", "raises"}
               THEN fail("Failed to register session with server")
               ELSE [pending |-> Without(pend, s),
                     auth |-> With(auth, s, AuthRecord(sid, pend[s].phone_number, t)),
                     result |-> [success |-> TRUE, session_id |-> sid]]

\* mark_session_authenticated keeping the pending record's timestamp
MarkSessionAuthenticatedOldStamp(pend, auth, s, session_id, reg, t) ==
    LET fail(msg) == [pending |-> pend, auth |-> auth,
                      result |-> [success |-> FALSE, error |-> msg]]
    IN IF s \notin DOMAIN pend
       THEN fail("No pending authentication session found")
       ELSE LET sid == IF session_id = NoId THEN pend[s].session_id ELSE session_id
            IN IF pend[s].session_id # sid
               THEN fail("Session ID mismatch")
               ELSE IF reg \in {"rejected", "raises"}
               THEN fail("Failed to register session with server")
               ELSE [pending |-> Without(pend, s),
                     auth |-> With(auth, s, AuthRecord(sid, pend[s].phone_number,
                                                       pend[s].timestamp)),
                     result |-> [success |-> TRUE, session_id |-> sid]]

\* mark_session_authenticated that gives the pending record up when the
\* register-session POST fails
MarkSessionAuthenticatedDropsPending(pend, auth, s, session_id, reg, t) ==
    LET fail(msg) == [pending |-> pend, auth |-> auth,
                      result |-> [success |-> FALSE, error |-> msg]]
    IN IF s \notin DOMAIN pend
       THEN fail("No pending authentication session found")
       ELSE LET sid == IF session_id = NoId THEN pend[s].session_id ELSE session_id
            IN IF pend[s].session_id # sid
               THEN fail("Session ID mismatch")
               ELSE IF reg \in {"rejected", "raises"}
               THEN [pending |-> Without(pend, s), auth |-> auth,
                     result |-> [success |-> FALSE,
                                 error |-> "Failed to register session with server"]]
               ELSE [pending |-> Without(pend, s),
                     auth |-> With(auth, s, AuthRecord(sid, pend[s].phone_number, t)),
                     result |-> [success |-> TRUE, session_id |-> sid]]

\* mark_session_authenticated that takes no call without a session id
MarkSessionAuthenticatedNeedsId(pend, auth, s, session_id, reg, t) ==
    LET fail(msg) == [pending |-> pend, auth |-> auth,
                      result |-> [success |-> FALSE, error |-> msg]]
    IN IF session_id = NoId
       THEN fail("No session ID provided")
       ELSE IF s \notin DOMAIN pend
       THEN fail("No pending authentication session found")
       ELSE IF pend[s].session_id # session_id
       THEN fail("Session ID mismatch")
       ELSE IF reg \in {"rejected", "raises"}
       THEN fail("Failed to register session with server")
       ELSE [pending |-> Without(pend, s),
             auth |-> With(auth, s, AuthRecord(session_id, pend[s].phone_number, t)),
             result |-> [success |-> TRUE, session_id |-> session_id]]

\* mark_session_authenticated(server_name, session_id); session_id may be None (NoId)
MarkSessionAuthenticated(pend, auth, s, session_id, reg, t) ==
    LET fail(msg) == [pending |-> pend, auth |-> auth,
                      result |-> [success |-> FALSE, error |-> msg]]
    IN IF s \notin DOMAIN pend
       THEN IF session_id = NoId
            THEN fail("No pending authentication session found and no session ID provided")
            ELSE fail("No pending authentication session found")
       ELSE LET sid == IF session_id = NoId THEN pend[s].session_id ELSE session_id
            IN IF pend[s].session_id # sid
               THEN fail("Session ID mismatch")
               ELSE IF reg = "rejected"
               THEN fail("Failed to register session with server")
               ELSE IF reg = "raises"
               THEN fail("Error registering session")
               ELSE [pending |-> Without(pend, s),
                     auth |-> With(auth, s, AuthRecord(sid, pend[s].phone_number, t)),
                     result |-> [success |-> TRUE, session_id |-> sid]]

\* ------------------------------------------------ execute_tool_for_gemini
\* "_".join(tokens) read back as tokens: names are kept as token sequences
Join(a, b) == a \o b

\* function_name.startswith(f"{known_server}_")
StartsWithPrefix(fn, known_server) ==
    /\ Len(fn) > Len(known_server)
    /\ SubSeq(fn, 1, Len(known_server)) = known_server

\* the loop of lines 719-724 with a fallback that takes the last server
ResolveFromLast(fn, srv, i) ==
    LET ms == {j \in i..Len(srv) : StartsWithPrefix(fn, srv[j])}
    IN IF ms # {}
       THEN LET j == CHOOSE k \in ms : \A m \in ms : k <= m
            IN [server |-> srv[j], tool |-> SubSeq(fn, Len(srv[j]) + 1, Len(fn)),
                matched |-> TRUE]
       ELSE IF Len(srv) > 0
       THEN [server |-> srv[Len(srv)], tool |-> fn, matched |-> FALSE]
       ELSE [server |-> NoName, tool |-> NoName, matched |-> FALSE]

\* the loop of lines 719-724 from position i, then the fallback of lines 728-733
RECURSIVE ResolveFrom(_, _, _)
ResolveFrom(fn, srv, i) ==
    IF i > Len(srv)
    THEN IF Len(srv) > 0
         THEN [server |-> srv[1], tool |-> fn, matched |-> FALSE]
         ELSE [server |-> NoName, tool |-> NoName, matched |-> FALSE]
    ELSE IF StartsWithPrefix(fn, srv[i])
    THEN [server |-> srv[i], tool |-> SubSeq(fn, Len(srv[i]) + 1, Len(fn)),
          matched |-> TRUE]
    ELSE ResolveFrom(fn, srv, i + 1)

Resolve(fn, srv) == ResolveFrom(fn, srv, 1)

\* the envelope of lines 737-742
Envelope(result, server, tool) ==
    [success |-> TRUE, result |-> result.content, server |-> server, tool |-> tool]

\* execute_tool_for_gemini(function_name, arguments) on HTTP servers
ExecuteToolForGemini(pend, auth, n, srv, fn, resp, t) ==
    LET res == Resolve(fn, srv)
    IN IF res.server = NoName
       THEN [pending |-> pend, auth |-> auth, uuids |-> n, sent |-> NoId,
             transport |-> [success |-> FALSE],
             result |-> [success |-> FALSE, error |-> "No MCP servers available",
                         server |-> NoName, tool |-> NoName]]
       ELSE LET r == CallHttpTool(pend, auth, n, res.server, FALSE, resp, t)
            IN [pending |-> r.pending, auth |-> r.auth, uuids |-> r.uuids,
                sent |-> r.sent, transport |-> r.result,
                result |-> Envelope(r.result, res.server, res.tool)]

FunctionNames ==
    {Join(s, tl) : s \in ServerNames, tl \in ToolNames}
    \cup {<<"other", "fetch", "net", "worth">>}

\* ------------------------------------------------------------------ actions
\* what a call leaves in ret: the maps and the clock it started from
Before == [pending |-> pending_auth, auth |-> authenticated_sessions,
           unswept |-> unswept, issued |-> issued, now |-> now, uuids |-> uuids]

\* no call is in progress: the client waits for its next caller
Idle == [op |-> "idle"]

\* the callers that may be inside a call of the client at the same time
Callers == {"caller1", "caller2"}

\* a caller that is inside no call
NoCall == [pc |-> "idle"]

\* __init__: no session, no connected server, no process, nobody inside a call
InitConnections ==
    /\ sessions = {}
    /\ connected_servers = {}
    /\ server_processes = EmptyMap
    /\ children = <<>>
    /\ pipe = EmptyMap
    /\ calls = [c \in Callers |-> NoCall]

Init ==
    /\ servers = LongestFirst
    /\ pending_auth = EmptyMap
    /\ authenticated_sessions = EmptyMap
    /\ now = 0
    /\ ticks = 0
    /\ uuids = 0
    /\ unswept = EmptyMap
    /\ issued = EmptyMap
    /\ ret = Idle
    /\ InitConnections

\* time passes between calls
\* time passes between calls. time.time() is compared only with the timestamp of
\* an authenticated record (_is_session_expired), so the clock is advanced while
\* one is stored
Tick(d) ==
    /\ ret = Idle
    /\ DOMAIN authenticated_sessions # {}
    /\ ticks < MaxTicks
    /\ ticks' = ticks + 1
    /\ now' = now + d
    /\ UNCHANGED <<servers, pending_auth, authenticated_sessions, uuids, unswept,
                   issued, ret, connection_vars>>

\* the caller takes the returned value; the client is ready for the next call.
\* A call that waits for the reply to its POST (ret has a pc) has not returned.
Return ==
    /\ ret # Idle
    /\ "pc" \notin DOMAIN ret
    /\ ret' = Idle
    /\ UNCHANGED <<servers, pending_auth, authenticated_sessions, now, ticks, uuids,
                   unswept, issued, connection_vars>>

DoGenerateAuthSession(s, phone, resp) ==
    /\ ret = Idle
    /\ \E r \in {GenerateAuthSession(pending_auth, authenticated_sessions, uuids, s,
                                 phone, resp, now)} :
       /\ r.uuids <= MaxIds
       /\ pending_auth' = r.pending
       /\ authenticated_sessions' = r.auth
       /\ uuids' = r.uuids
       /\ ret' = [op |-> "generate_auth_session", server |-> s, phone |-> phone,
                  resp |-> resp, before |-> Before, sent |-> r.sent,
                  transport |-> r.transport, result |-> r.result]
       /\ issued' = With(issued, s, [session_id |-> r.result.session_id,
                                     login_url |-> r.result.login_url])
       /\ UNCHANGED <<servers, now, ticks, unswept, connection_vars>>

DoMarkSessionAuthenticated(s, session_id, reg) ==
    /\ ret = Idle
    /\ \E r \in {MarkSessionAuthenticated(pending_auth, authenticated_sessions, s,
                                      session_id, reg, now)} :
       /\ pending_auth' = r.pending
       /\ authenticated_sessions' = r.auth
       /\ unswept' = IF r.result.success THEN With(unswept, s, now) ELSE unswept
       /\ issued' = IF r.result.success THEN Without(issued, s) ELSE issued
       /\ ret' = [op |-> "mark_session_authenticated", server |-> s,
                  session_id |-> session_id, reg |-> reg, before |-> Before,
                  result |-> r.result]
       /\ UNCHANGED <<servers, now, ticks, uuids, connection_vars>>

DoIsAuthenticated(s) ==
    /\ ret = Idle
    /\ authenticated_sessions' = IsAuthenticatedMap(authenticated_sessions, s, now)
    /\ ret' = [op |-> "is_authenticated", server |-> s, before |-> Before,
               result |-> IsAuthenticatedValue(authenticated_sessions, s, now)]
    /\ UNCHANGED <<servers, pending_auth, now, ticks, uuids, unswept, issued, connection_vars>>

DoGetAuthenticationStatus(s) ==
    /\ ret = Idle
    /\ authenticated_sessions' = GetAuthenticationStatusMap(authenticated_sessions, s, now)
    /\ ret' = [op |-> "get_authentication_status", server |-> s, before |-> Before,
               result |-> GetAuthenticationStatusValue(authenticated_sessions,
                                                       pending_auth, s, now)]
    /\ UNCHANGED <<servers, pending_auth, now, ticks, uuids, unswept, issued, connection_vars>>

DoCleanupExpiredSessions ==
    /\ ret = Idle
    /\ authenticated_sessions' = CleanupMap(authenticated_sessions, now)
    /\ unswept' = [s \in {x \in DOMAIN unswept : ~(now - unswept[x] > session_timeout)}
                     |-> unswept[s]]
    /\ ret' = [op |-> "cleanup_expired_sessions", before |-> Before,
               result |-> Cardinality(ExpiredServers(authenticated_sessions, now))]
    /\ UNCHANGED <<servers, pending_auth, now, ticks, uuids, issued, connection_vars>>

DoExecuteToolForGemini(fn, resp) ==
    /\ ret = Idle
    /\ \E r \in {ExecuteToolForGemini(pending_auth, authenticated_sessions, uuids,
                                  servers, fn, resp, now)} :
       /\ r.uuids <= MaxIds
       /\ pending_auth' = r.pending
       /\ authenticated_sessions' = r.auth
       /\ uuids' = r.uuids
       /\ ret' = [op |-> "execute_tool_for_gemini", function_name |-> fn,
                  server |-> r.result.server, resp |-> resp, before |-> Before,
                  sent |-> r.sent, transport |-> r.transport, result |-> r.result,
                  posts |-> IF r.sent = NoId THEN 0 ELSE PostAttempts(resp)]
       /\ UNCHANGED <<servers, now, ticks, unswept, issued, connection_vars>>

\* the session ids a caller may hand to mark_session_authenticated: an id drawn
\* so far, an id never drawn, or None
SessionIdArgs == {MintId(n) : n \in 0..uuids} \cup {NoId}

\* the POST to /login is made only once the pending record matched (lines 351-379)
RegisterRepliesAt(s, session_id) ==
    IF s \in DOMAIN pending_auth
       /\ session_id \in {NoId, pending_auth[s].session_id}
    THEN RegisterReplies ELSE {"not_sent"}

TickSteps == {1, session_timeout - 1}

Next ==
    \/ \E d \in TickSteps : Tick(d)
    \/ Return
    \/ \E s \in ServerNames, phone \in PhoneNumbers, resp \in Responses :
          DoGenerateAuthSession(s, phone, resp)
    \/ \E s \in ServerNames, sid \in SessionIdArgs :
          \E reg \in RegisterRepliesAt(s, sid) : DoMarkSessionAuthenticated(s, sid, reg)
    \/ \E s \in ServerNames : DoIsAuthenticated(s)
    \/ \E s \in ServerNames : DoGetAuthenticationStatus(s)
    \/ DoCleanupExpiredSessions
    \/ \E fn \in FunctionNames, resp \in Responses : DoExecuteToolForGemini(fn, resp)

Spec == Init /\ [][Next]_vars

\* the same client under either key order of the configuration
InitAnyOrder ==
    /\ servers \in Configs
    /\ pending_auth = EmptyMap
    /\ authenticated_sessions = EmptyMap
    /\ now = 0
    /\ ticks = 0
    /\ uuids = 0
    /\ unswept = EmptyMap
    /\ issued = EmptyMap
    /\ ret = Idle
    /\ InitConnections

SpecAnyOrder == InitAnyOrder /\ [][Next]_vars


\* ============================================================ stdio servers
\* a server configured with "command" (and args) instead of "url"
LOCAL_TOOLS == <<"local", "tools">>

StdioServerNames == {LOCAL_TOOLS}

\* "url" in server_config
IsHttp(s) == s \in ServerNames

\* mcp_config.json with no server, or with one HTTP and one stdio server
StdioConfigs == {<<>>, <<FI_MCP, LOCAL_TOOLS>>, <<LOCAL_TOOLS, FI_MCP>>}

\* what spawning server_config["command"] does while one connect call runs:
\*   missing  the command does not exist: Popen / stdio_client raise FileNotFoundError
\*   exits    the process is spawned and exits at once
\*   runs     the process is spawned and serves MCP on its pipes
Commands == {"missing", "exits", "runs"}

\* how session.initialize() ends, for a process that exits and for one that runs.
\* The mcp library decides what a request on a closed pipe does: it raises or it
\* waits for a reply that never comes.
Handshakes(cmd) ==
    IF cmd = "exits" THEN {"raises", "hangs"} ELSE {"ok", "raises"}

\* the connection state the stdio operations read and write
ConnState(sess, conn, procs, kids) ==
    [sessions |-> sess, connected |-> conn, procs |-> procs, children |-> kids]

\* a subprocess of the client: the server it was spawned for and whether it runs
Child(s, state) == [server |-> s, state |-> state]

\* _start_server_process: the subprocesses and server_processes after it, and
\* the value it returns. Line 63 stores the new handle under the server's name,
\* in place of a handle stored there before.
StartServerProcess(procs, kids, s, cmd) ==
    CASE cmd = "missing" -> [procs |-> procs, children |-> kids, value |-> FALSE]
      [] cmd = "exits" ->
            [procs |-> With(procs, s, "exited"),
             children |-> Append(kids, Child(s, "exited")), value |-> FALSE]
      [] OTHER ->
            [procs |-> With(procs, s, "running"),
             children |-> Append(kids, Child(s, "running")), value |-> TRUE]

\* _connect_stdio_server: how it ends, whether session.initialize() was called,
\* and the connection state after it
ConnectStdioServer(st, s, cmd, hs) ==
    IF cmd = "missing"
    THEN [st |-> st, outcome |-> "raised", exc |-> "FileNotFoundError",
          handshake |-> FALSE]
    ELSE CASE hs = "ok" ->
                [st |-> [st EXCEPT !.sessions = @ \cup {s}, !.connected = @ \cup {s}],
                 outcome |-> "returned", exc |-> None, handshake |-> TRUE]
           [] hs = "raises" ->
                [st |-> st, outcome |-> "raised", exc |-> "McpError", handshake |-> TRUE]
           [] OTHER ->
                [st |-> st, outcome |-> "hung", exc |-> None, handshake |-> TRUE]

\* what the GET of the health URL may do
HealthReplies == {"ok", "not200", "raises"}

\* _connect_http_server: a 200 and a failed request both mark the server
\* connected; another status falls off the end of the function
ConnectHttpServer(st, s, health) ==
    IF health = "not200"
    THEN [st |-> st, outcome |-> "returned", exc |-> None, handshake |-> FALSE]
    ELSE [st |-> [st EXCEPT !.connected = @ \cup {s}],
          outcome |-> "returned", exc |-> None, handshake |-> FALSE]

\* connect_to_server(server_name, server_config): the value _start_server_process
\* returns is not looked at (line 90)
ConnectToServer(st, s, cmd, hs, health) ==
    IF IsHttp(s)
    THEN ConnectHttpServer(st, s, health)
    ELSE LET started == StartServerProcess(st.procs, st.children, s, cmd)
         IN ConnectStdioServer([st EXCEPT !.procs = started.procs,
                                          !.children = started.children], s, cmd, hs)

\* what session.call_tool / session.list_tools may do on a session that is stored
SessionReplies == {"ok", "raises"}

\* a step that ended without an exception and without a connection attempt
Proceeds(st) == [st |-> st, outcome |-> "returned", exc |-> None, handshake |-> FALSE]

\* the "if server_name not in self.sessions: await self.connect_to_server(...)"
\* of call_tool and get_server_tools (lines 248-250, 200-202)
ConnectIfNeeded(st, s, cmd, hs) ==
    IF s \in st.sessions THEN Proceeds(st) ELSE ConnectToServer(st, s, cmd, hs, "ok")

\* the object session.call_tool returns, as str() shows it
CallToolResult == [py |-> "str", s |-> "CallToolResult(...)"]

\* call_tool on a stdio server (lines 246-254)
CallStdioTool(st, s, cmd, hs, reply) ==
    LET c == ConnectIfNeeded(st, s, cmd, hs)
    IN IF c.outcome # "returned"
       THEN [st |-> c.st, outcome |-> c.outcome, exc |-> c.exc, value |-> CallToolResult]
       ELSE IF s \notin c.st.sessions
       THEN [st |-> c.st, outcome |-> "raised", exc |-> "KeyError", value |-> CallToolResult]
       ELSE IF reply = "raises"
       THEN [st |-> c.st, outcome |-> "raised", exc |-> "McpError", value |-> CallToolResult]
       ELSE [st |-> c.st, outcome |-> "returned", exc |-> None, value |-> CallToolResult]

\* raise ValueError("No MCP servers available") (line 733)
NoServersAvailable(st) ==
    [st |-> st, outcome |-> "raised", exc |-> "ValueError", value |-> CallToolResult]

\* the envelope of lines 737-742 for a result that is not a dict: str(result)
StrEnvelope(result, server, tool) ==
    [success |-> TRUE, result |-> result, server |-> server, tool |-> tool]

\* the envelope of lines 746-751
ErrorEnvelope(exc, server, tool) ==
    [success |-> FALSE, error |-> exc, server |-> server, tool |-> tool]

\* a try block with no handler: what the call raised goes on to the caller
ExceptNothing(r, server, tool) ==
    IF r.outcome = "returned"
    THEN [st |-> r.st, outcome |-> "returned", exc |-> None,
          result |-> StrEnvelope(r.value, server, tool)]
    ELSE [st |-> r.st, outcome |-> r.outcome, exc |-> r.exc, result |-> [raised |-> r.exc]]

\* the try / except Exception of execute_tool_for_gemini (lines 711, 744-751)
\* around a call that returned, raised or never came back
ExceptException(r, server, tool) ==
    CASE r.outcome = "returned" ->
            [st |-> r.st, outcome |-> "returned", exc |-> None,
             result |-> StrEnvelope(r.value, server, tool)]
      [] r.outcome = "raised" ->
            [st |-> r.st, outcome |-> "returned", exc |-> None,
             result |-> ErrorEnvelope(r.exc, server, tool)]
      [] OTHER ->
            [st |-> r.st, outcome |-> "hung", exc |-> None, result |-> [hung |-> TRUE]]

\* execute_tool_for_gemini(function_name, arguments) where the name resolves to
\* a stdio server
ExecuteToolForGeminiStdio(st, srv, fn, cmd, hs, reply) ==
    LET res == Resolve(fn, srv)
        r == IF res.server \in StdioServerNames
             THEN CallStdioTool(st, res.server, cmd, hs, reply)
             ELSE NoServersAvailable(st)
    IN ExceptException(r, res.server, res.tool)

\* the tools a server lists, in the format lines 181-188 and 209-216 build
ListedTools(s) ==
    <<[name |-> <<"fetch", "net", "worth">>, description |-> "d",
       input_schema |-> "schema", server |-> s]>>

\* get_server_tools(server_name). For an HTTP server a failed discovery calls
\* self._get_http_server_tools (line 197), which the class does not define.
GetServerTools(st, s, cmd, hs, listing) ==
    IF IsHttp(s)
    THEN IF listing = "ok"
         THEN [st |-> [st EXCEPT !.connected = @ \cup {s}], outcome |-> "returned",
               exc |-> None, value |-> ListedTools(s)]
         ELSE [st |-> st, outcome |-> "raised", exc |-> "AttributeError", value |-> <<>>]
    ELSE LET c == ConnectIfNeeded(st, s, cmd, hs)
         IN IF c.outcome # "returned"
            THEN [st |-> c.st, outcome |-> c.outcome, exc |-> c.exc, value |-> <<>>]
            ELSE IF s \notin c.st.sessions
            THEN [st |-> c.st, outcome |-> "raised", exc |-> "KeyError", value |-> <<>>]
            ELSE IF listing = "raises"
            THEN [st |-> c.st, outcome |-> "raised", exc |-> "McpError", value |-> <<>>]
            ELSE [st |-> c.st, outcome |-> "returned", exc |-> None,
                  value |-> ListedTools(s)]

\* what discovery meets at one server: the command, the handshake, the listing
DiscoveryInputs(s) ==
    IF IsHttp(s)
    THEN {[cmd |-> "runs", hs |-> "ok", listing |-> l] : l \in SessionReplies}
    ELSE {[cmd |-> c, hs |-> h, listing |-> l] :
             c \in {"exits", "runs"}, h \in {"ok", "raises"}, l \in SessionReplies}
         \cup {[cmd |-> "missing", hs |-> "raises", listing |-> "raises"],
               [cmd |-> "exits", hs |-> "hangs", listing |-> "raises"]}

\* the entry with mock tools standing in for a failed discovery
ToolsEntryMock(r) ==
    IF r.outcome = "raised" THEN <<[name |-> <<"mock">>]>> ELSE r.value

\* the entry get_all_available_tools stores for a call that came back
\* (lines 226-232)
ToolsEntry(r) == IF r.outcome = "raised" THEN <<>> ELSE r.value

\* the loop of get_all_available_tools from position i of self.servers.keys()
RECURSIVE GetAllFrom(_, _, _, _, _)
GetAllFrom(st, srv, i, env, all_tools) ==
    IF i > Len(srv)
    THEN [st |-> st, outcome |-> "returned", value |-> all_tools]
    ELSE LET e == env[srv[i]]
             r == GetServerTools(st, srv[i], e.cmd, e.hs, e.listing)
         IN IF r.outcome = "hung"
            THEN [st |-> r.st, outcome |-> "hung", value |-> all_tools]
            ELSE GetAllFrom(r.st, srv, i + 1, env, With(all_tools, srv[i], ToolsEntry(r)))

\* get_all_available_tools()
GetAllAvailableTools(st, srv, env) == GetAllFrom(st, srv, 1, env, EmptyMap)

\* the names in self.servers
Configured(srv) == {srv[i] : i \in 1..Len(srv)}

\* ------------------------------------------- actions of the stdio operations
\* the connection state a call starts from
BeforeConn == ConnState(sessions, connected_servers, server_processes, children)

StdioFunctionNames ==
    {Join(s, tl) : s \in {FI_MCP, LOCAL_TOOLS}, tl \in ToolNames}
    \cup {<<"other", "fetch", "net", "worth">>}

\* the discoveries get_all_available_tools may meet, one per configured server
DiscoveryEnvs ==
    {e \in [Configured(servers) -> UNION {DiscoveryInputs(s) : s \in Configured(servers)}] :
        \A s \in Configured(servers) : e[s] \in DiscoveryInputs(s)}

DoConnectToServer(s, cmd, hs, health) ==
    /\ ret = Idle
    /\ \E r \in {ConnectToServer(BeforeConn, s, cmd, hs, health)} :
       /\ sessions' = r.st.sessions
       /\ connected_servers' = r.st.connected
       /\ server_processes' = r.st.procs
       /\ Len(r.st.children) <= MaxChildren
       /\ children' = r.st.children
       /\ ret' = [op |-> "connect_to_server", server |-> s, cmd |-> cmd, hs |-> hs,
                  before |-> BeforeConn, outcome |-> r.outcome, exc |-> r.exc,
                  handshake |-> r.handshake]
    /\ UNCHANGED <<servers, pending_auth, authenticated_sessions, now, ticks, uuids,
                   unswept, issued, pipe, calls>>

DoGetAllAvailableTools(env) ==
    /\ ret = Idle
    /\ \E r \in {GetAllAvailableTools(BeforeConn, servers, env)} :
       /\ sessions' = r.st.sessions
       /\ connected_servers' = r.st.connected
       /\ server_processes' = r.st.procs
       /\ Len(r.st.children) <= MaxChildren
       /\ children' = r.st.children
       /\ ret' = [op |-> "get_all_available_tools", env |-> env, before |-> BeforeConn,
                  outcome |-> r.outcome, result |-> r.value]
    /\ UNCHANGED <<servers, pending_auth, authenticated_sessions, now, ticks, uuids,
                   unswept, issued, pipe, calls>>

DoExecuteToolForGeminiStdio(fn, cmd, hs, reply) ==
    /\ ret = Idle
    /\ ~IsHttp(Resolve(fn, servers).server)
    /\ \E r \in {ExecuteToolForGeminiStdio(BeforeConn, servers, fn, cmd, hs, reply)} :
       /\ sessions' = r.st.sessions
       /\ connected_servers' = r.st.connected
       /\ server_processes' = r.st.procs
       /\ Len(r.st.children) <= MaxChildren
       /\ children' = r.st.children
       /\ ret' = [op |-> "execute_tool_for_gemini", function_name |-> fn,
                  server |-> Resolve(fn, servers).server, cmd |-> cmd, hs |-> hs,
                  reply |-> reply, before |-> BeforeConn, outcome |-> r.outcome,
                  result |-> r.result]
    /\ UNCHANGED <<servers, pending_auth, authenticated_sessions, now, ticks, uuids,
                   unswept, issued, pipe, calls>>

\* execute_tool_for_gemini where the name resolves to an HTTP server
DoExecuteToolForGeminiHttp(fn, resp) ==
    /\ IsHttp(Resolve(fn, servers).server)
    /\ DoExecuteToolForGemini(fn, resp)

InitStdio ==
    /\ servers \in StdioConfigs
    /\ pending_auth = EmptyMap
    /\ authenticated_sessions = EmptyMap
    /\ now = 0
    /\ ticks = 0
    /\ uuids = 0
    /\ unswept = EmptyMap
    /\ issued = EmptyMap
    /\ ret = Idle
    /\ InitConnections

NextStdio ==
    \/ Return
    \/ \E s \in Configured(servers), cmd \in Commands, health \in HealthReplies :
          \E hs \in Handshakes(cmd) : DoConnectToServer(s, cmd, hs, health)
    \/ \E env \in DiscoveryEnvs : DoGetAllAvailableTools(env)
    \/ \E fn \in StdioFunctionNames, cmd \in Commands, reply \in SessionReplies :
          \E hs \in Handshakes(cmd) : DoExecuteToolForGeminiStdio(fn, cmd, hs, reply)
    \/ \E fn \in StdioFunctionNames, resp \in Responses :
          DoExecuteToolForGeminiHttp(fn, resp)

\* the client with a stdio server in its configuration
SpecStdio == InitStdio /\ [][NextStdio]_vars

\* ------------------------------------------------- replies with a text item
\* every text of at most MaxTextLen tokens
Texts == UNION {[1..n -> JsonTokens] : n \in 0..MaxTextLen}

\* 200 replies whose result.content[0] is {"type": "text", "text": <text>}
TextReplies == {[kind |-> "text", shape |-> None, text |-> tx] : tx \in Texts}

NextReply ==
    \/ Return
    \/ /\ ret = Idle
       /\ \E tl \in ToolNames, resp \in TextReplies :
             DoExecuteToolForGemini(Join(FI_MCP, tl), resp)

\* tool calls answered with every text
SpecReply == Init /\ [][NextReply]_vars

\* --------------------------------------- concurrent calls on a stdio session
\* call_tool and get_server_tools on a stdio server, as coroutines that give
\* way at their awaits: the connect (lines 250, 202) and the request on the
\* session (lines 253, 205). Neither takes a lock.
StdioOps == {"call_tool", "get_server_tools"}

\* the callers whose request is written to the session of s and not answered
InFlight(s) == IF s \in DOMAIN pipe THEN pipe[s] ELSE {}

\* lines 248/200 and, with a session stored, 252-253/204-205: the request is
\* written to the pipe and the caller awaits the reply
StdioCallEnters(c, op, s) ==
    /\ calls[c] = NoCall
    /\ IF s \in sessions
       THEN /\ pipe' = With(pipe, s, InFlight(s) \cup {c})
            /\ calls' = [calls EXCEPT ![c] = [pc |-> "awaiting", op |-> op, server |-> s]]
       ELSE /\ pipe' = pipe
            /\ calls' = [calls EXCEPT ![c] = [pc |-> "connecting", op |-> op, server |-> s]]
    /\ UNCHANGED <<servers, pending_auth, authenticated_sessions, now, ticks, uuids,
                   unswept, issued, ret, sessions, connected_servers, server_processes,
                   children>>

\* the awaited connect_to_server ends, or is seen never to end; on success the
\* request is written
StdioCallConnects(c, cmd, hs) ==
    /\ calls[c].pc = "connecting"
    /\ \E r \in {ConnectToServer(BeforeConn, calls[c].server, cmd, hs, "ok")} :
       /\ sessions' = r.st.sessions
       /\ connected_servers' = r.st.connected
       /\ server_processes' = r.st.procs
       /\ Len(r.st.children) <= MaxChildren
       /\ children' = r.st.children
       /\ IF r.outcome = "returned"
          THEN /\ pipe' = With(pipe, calls[c].server, InFlight(calls[c].server) \cup {c})
               /\ calls' = [calls EXCEPT ![c].pc = "awaiting"]
          ELSE /\ pipe' = pipe
               /\ calls' = [calls EXCEPT ![c] =
                               [pc |-> IF r.outcome = "hung" THEN "hung" ELSE "raised",
                                op |-> @.op, server |-> @.server, exc |-> r.exc]]
    /\ UNCHANGED <<servers, pending_auth, authenticated_sessions, now, ticks, uuids,
                   unswept, issued, ret>>

\* the session receives the answer to the request of caller c and hands it to c
StdioReplyArrives(c, reply) ==
    /\ calls[c].pc = "awaiting"
    /\ c \in InFlight(calls[c].server)
    /\ pipe' = With(pipe, calls[c].server, InFlight(calls[c].server) \ {c})
    /\ calls' = [calls EXCEPT ![c] =
                    IF reply = "ok"
                    THEN [pc |-> "done", op |-> @.op, server |-> @.server,
                          result |-> [reply_to |-> c]]
                    ELSE [pc |-> "raised", op |-> @.op, server |-> @.server,
                          exc |-> "McpError"]]
    /\ UNCHANGED <<servers, pending_auth, authenticated_sessions, now, ticks, uuids,
                   unswept, issued, ret, sessions, connected_servers, server_processes,
                   children>>

\* the caller takes what the call returned or raised
StdioCallReturns(c) ==
    /\ calls[c] # NoCall
    /\ calls[c].pc \in {"done", "raised"}
    /\ calls' = [calls EXCEPT ![c] = NoCall]
    /\ UNCHANGED <<servers, pending_auth, authenticated_sessions, now, ticks, uuids,
                   unswept, issued, ret, sessions, connected_servers, server_processes,
                   children, pipe>>

InitPipe ==
    /\ servers = <<LOCAL_TOOLS>>
    /\ pending_auth = EmptyMap
    /\ authenticated_sessions = EmptyMap
    /\ now = 0
    /\ ticks = 0
    /\ uuids = 0
    /\ unswept = EmptyMap
    /\ issued = EmptyMap
    /\ ret = Idle
    /\ InitConnections

NextPipe ==
    \E c \in Callers :
        \/ \E op \in StdioOps, s \in Configured(servers) : StdioCallEnters(c, op, s)
        \/ \E cmd \in Commands : \E hs \in Handshakes(cmd) : StdioCallConnects(c, cmd, hs)
        \/ \E reply \in SessionReplies : StdioReplyArrives(c, reply)
        \/ StdioCallReturns(c)

\* two callers sharing the session of one stdio server
SpecPipe == InitPipe /\ [][NextPipe]_vars

\* ------------------------------------------ concurrent calls on the session maps
\* generate_auth_session, mark_session_authenticated, is_authenticated,
\* get_authentication_status and cleanup_expired_sessions, run by callers in
\* different threads on the one client. None takes a lock, so
\* another caller may run between any two statements of a method; a call is a
\* frame in calls[c] that moves statement by statement. The frame keeps the
\* locals of the call.
outside_session_maps ==
    <<servers, now, ticks, unswept, issued, ret, sessions, connected_servers,
      server_processes, children, pipe>>

\* a frame that returned a value, and one that raised
Returned(frame, result) ==
    [pc |-> "done", op |-> frame.op, server |-> frame.server, args |-> frame,
     result |-> result]

Raised(frame, exc) ==
    [pc |-> "raised", op |-> frame.op, server |-> frame.server, args |-> frame,
     exc |-> exc]

\* ---- generate_auth_session: the session selection of the probing call
\* (lines 561-585), then the POST
GenerateSelects(c, s, phone) ==
    /\ calls[c] = NoCall
    /\ \E sel \in {SelectSession(pending_auth, authenticated_sessions, uuids, s, TRUE, now)} :
       /\ sel.uuids <= MaxIds
       /\ pending_auth' = sel.pending
       /\ authenticated_sessions' = sel.auth
       /\ uuids' = sel.uuids
       /\ calls' = [calls EXCEPT ![c] = [pc |-> "post", op |-> "generate_auth_session",
                                         server |-> s, phone |-> phone, sent |-> sel.sent]]
    /\ UNCHANGED outside_session_maps

\* the POST came back: the rest of the probing call (lines 594-686)
\* and the store (lines 266-336)
GenerateStores(c, resp) ==
    /\ calls[c].pc = "post"
    /\ calls[c].op = "generate_auth_session"
    /\ \E r \in {StoreAuthSession(HandleReply(pending_auth, authenticated_sessions, uuids,
                                              calls[c].server, resp, calls[c].sent, now),
                                  calls[c].server, calls[c].phone, now)} :
       /\ r.uuids <= MaxIds
       /\ pending_auth' = r.pending
       /\ authenticated_sessions' = r.auth
       /\ uuids' = r.uuids
       /\ calls' = [calls EXCEPT ![c] = Returned(@, r.result)]
    /\ UNCHANGED outside_session_maps

\* ---- mark_session_authenticated: the checks of lines 342-362
MarkChecks(c, s, session_id) ==
    /\ calls[c] = NoCall
    /\ LET frame == [pc |-> "post", op |-> "mark_session_authenticated", server |-> s,
                     session_id |-> session_id]
           fail(msg) == Returned(frame, [success |-> FALSE, error |-> msg])
       IN calls' = [calls EXCEPT ![c] =
             IF s \notin DOMAIN pending_auth
             THEN fail("No pending authentication session found")
             ELSE LET sid == IF session_id = NoId THEN pending_auth[s].session_id
                             ELSE session_id
                  IN IF pending_auth[s].session_id # sid
                     THEN fail("Session ID mismatch")
                     ELSE [pc |-> "post", op |-> "mark_session_authenticated",
                           server |-> s, session_id |-> sid,
                           pending_session |-> pending_auth[s]]]
    /\ UNCHANGED <<pending_auth, authenticated_sessions, uuids>>
    /\ UNCHANGED outside_session_maps

\* the POST to /login came back (lines 379-395)
MarkPosts(c, reg) ==
    /\ calls[c].pc = "post"
    /\ calls[c].op = "mark_session_authenticated"
    /\ calls' = [calls EXCEPT ![c] =
          CASE reg = "rejected" ->
                  Returned(@, [success |-> FALSE,
                               error |-> "Failed to register session with server"])
            [] reg = "raises" ->
                  Returned(@, [success |-> FALSE, error |-> "Error registering session"])
            [] OTHER -> [@ EXCEPT !.pc = "move"]]
    /\ UNCHANGED <<pending_auth, authenticated_sessions, uuids>>
    /\ UNCHANGED outside_session_maps

\* self.authenticated_sessions[server_name] = {...} (lines 399-405)
MarkMoves(c) ==
    /\ calls[c].pc = "move"
    /\ authenticated_sessions' =
          With(authenticated_sessions, calls[c].server,
               AuthRecord(calls[c].session_id, calls[c].pending_session.phone_number, now))
    /\ calls' = [calls EXCEPT ![c].pc = "delete_pending"]
    /\ UNCHANGED <<pending_auth, uuids>>
    /\ UNCHANGED outside_session_maps

\* del self.pending_auth[server_name] (line 408), then the return
MarkDeletes(c) ==
    /\ calls[c].pc = "delete_pending"
    /\ IF calls[c].server \in DOMAIN pending_auth
       THEN /\ pending_auth' = Without(pending_auth, calls[c].server)
            /\ calls' = [calls EXCEPT ![c] =
                  [pc |-> "done", op |-> @.op, server |-> @.server, args |-> @,
                   deleted |-> pending_auth[@.server].session_id,
                   result |-> [success |-> TRUE, session_id |-> @.session_id]]]
       ELSE /\ pending_auth' = pending_auth
            /\ calls' = [calls EXCEPT ![c] = Raised(@, "KeyError")]
    /\ UNCHANGED <<authenticated_sessions, uuids>>
    /\ UNCHANGED outside_session_maps

\* ---- is_authenticated and get_authentication_status, which read and evict
\* alike (lines 481-489, 509-514)
Readers == {"is_authenticated", "get_authentication_status"}

\* history kept in a frame: whether the call started on an expired record of s,
\* and that record
Stale(s) ==
    IF s \in DOMAIN authenticated_sessions
       /\ IsSessionExpired(authenticated_sessions[s], now)
    THEN [expired |-> TRUE, record |-> authenticated_sessions[s]]
    ELSE [expired |-> FALSE]

\* "if server_name (not) in self.authenticated_sessions" (lines 481, 509)
ReaderChecks(c, op, s) ==
    /\ calls[c] = NoCall
    /\ LET frame == [pc |-> "read", op |-> op, server |-> s, stale |-> Stale(s)]
       IN calls' = [calls EXCEPT ![c] =
             IF s \in DOMAIN authenticated_sessions THEN frame
             ELSE IF op = "is_authenticated" THEN Returned(frame, FALSE)
             ELSE IF s \in DOMAIN pending_auth THEN [frame EXCEPT !.pc = "read_pending"]
             ELSE Returned(frame, [status |-> "not_authenticated"])]
    /\ UNCHANGED <<pending_auth, authenticated_sessions, uuids>>
    /\ UNCHANGED outside_session_maps

\* session_info = self.authenticated_sessions[server_name] (lines 484, 510)
ReaderReads(c) ==
    /\ calls[c].pc = "read"
    /\ calls' = [calls EXCEPT ![c] =
          IF @.server \in DOMAIN authenticated_sessions
          THEN [pc |-> "test", op |-> @.op, server |-> @.server, stale |-> @.stale,
                session_info |-> authenticated_sessions[@.server]]
          ELSE Raised(@, "KeyError")]
    /\ UNCHANGED <<pending_auth, authenticated_sessions, uuids>>
    /\ UNCHANGED outside_session_maps

\* "if self._is_session_expired(session_info)" and, unexpired, the return
\* (lines 487-494, 513-517)
ReaderTests(c) ==
    /\ calls[c].pc = "test"
    /\ calls' = [calls EXCEPT ![c] =
          IF IsSessionExpired(@.session_info, now)
          THEN [@ EXCEPT !.pc = "delete"]
          ELSE IF @.op = "is_authenticated"
          THEN Returned(@, @.session_info.status = "authenticated")
          ELSE Returned(@, @.session_info)]
    /\ UNCHANGED <<pending_auth, authenticated_sessions, uuids>>
    /\ UNCHANGED outside_session_maps

\* del self.authenticated_sessions[server_name] and the return (lines 489-491,
\* 514-515)
ReaderDeletes(c) ==
    /\ calls[c].pc = "delete"
    /\ IF calls[c].server \in DOMAIN authenticated_sessions
       THEN /\ authenticated_sessions' = Without(authenticated_sessions, calls[c].server)
            /\ calls' = [calls EXCEPT ![c] =
                  IF @.op = "is_authenticated" THEN Returned(@, FALSE)
                  ELSE Returned(@, [status |-> "expired", message |-> "Session expired"])]
       ELSE /\ authenticated_sessions' = authenticated_sessions
            /\ calls' = [calls EXCEPT ![c] = Raised(@, "KeyError")]
    /\ UNCHANGED <<pending_auth, uuids>>
    /\ UNCHANGED outside_session_maps

\* return self.pending_auth[server_name] (line 517)
ReaderReadsPending(c) ==
    /\ calls[c].pc = "read_pending"
    /\ calls' = [calls EXCEPT ![c] =
          IF @.server \in DOMAIN pending_auth
          THEN Returned(@, pending_auth[@.server])
          ELSE Raised(@, "KeyError")]
    /\ UNCHANGED <<pending_auth, authenticated_sessions, uuids>>
    /\ UNCHANGED outside_session_maps

\* ---- cleanup_expired_sessions: the loop that collects expired_servers
\* (lines 525-528)
CleanupScans(c) ==
    /\ calls[c] = NoCall
    /\ calls' = [calls EXCEPT ![c] =
          [pc |-> "sweep", op |-> "cleanup_expired_sessions", server |-> NoName,
           stale |-> [expired |-> ExpiredServers(authenticated_sessions, now) # {}],
           expired_servers |-> ExpiredServers(authenticated_sessions, now),
           todo |-> ExpiredServers(authenticated_sessions, now)]]
    /\ UNCHANGED <<pending_auth, authenticated_sessions, uuids>>
    /\ UNCHANGED outside_session_maps

\* one "del self.authenticated_sessions[server_name]" of the second loop
\* (lines 530-531)
CleanupDeletes(c, s) ==
    /\ calls[c].pc = "sweep"
    /\ s \in calls[c].todo
    /\ IF s \in DOMAIN authenticated_sessions
       THEN /\ authenticated_sessions' = Without(authenticated_sessions, s)
            /\ calls' = [calls EXCEPT ![c].todo = @ \ {s}]
       ELSE /\ authenticated_sessions' = authenticated_sessions
            /\ calls' = [calls EXCEPT ![c] = Raised(@, "KeyError")]
    /\ UNCHANGED <<pending_auth, uuids>>
    /\ UNCHANGED outside_session_maps

\* return len(expired_servers) (line 534)
CleanupCounts(c) ==
    /\ calls[c].pc = "sweep"
    /\ calls[c].todo = {}
    /\ calls' = [calls EXCEPT ![c] = Returned(@, Cardinality(@.expired_servers))]
    /\ UNCHANGED <<pending_auth, authenticated_sessions, uuids>>
    /\ UNCHANGED outside_session_maps

\* the caller takes what its call returned or raised
CallerReturns(c) ==
    /\ calls[c].pc \in {"done", "raised"}
    /\ calls' = [calls EXCEPT ![c] = NoCall]
    /\ UNCHANGED <<pending_auth, authenticated_sessions, uuids>>
    /\ UNCHANGED outside_session_maps

\* the replies the probing call meets here
ProbeReplies == {[kind |-> k, shape |-> None] : k \in {"invalid_session", "data"}}

\* a clock step that takes every stored record past its expiry
ExpirySteps == {session_timeout + 1}

InitThreads ==
    /\ servers = <<FI_MCP>>
    /\ pending_auth = EmptyMap
    /\ authenticated_sessions = EmptyMap
    /\ now = 0
    /\ ticks = 0
    /\ uuids = 0
    /\ unswept = EmptyMap
    /\ issued = EmptyMap
    /\ ret = Idle
    /\ InitConnections

NextThreads ==
    \/ \E d \in ExpirySteps : Tick(d)
    \/ \E c \in Callers :
          \/ \E s \in Configured(servers), phone \in PhoneNumbers : GenerateSelects(c, s, phone)
          \/ \E resp \in ProbeReplies : GenerateStores(c, resp)
          \/ \E s \in Configured(servers), sid \in SessionIdArgs : MarkChecks(c, s, sid)
          \/ \E reg \in RegisterReplies : MarkPosts(c, reg)
          \/ MarkMoves(c)
          \/ MarkDeletes(c)
          \/ \E op \in Readers, s \in Configured(servers) : ReaderChecks(c, op, s)
          \/ ReaderReads(c)
          \/ ReaderTests(c)
          \/ ReaderDeletes(c)
          \/ ReaderReadsPending(c)
          \/ CleanupScans(c)
          \/ \E s \in Configured(servers) : CleanupDeletes(c, s)
          \/ CleanupCounts(c)
          \/ CallerReturns(c)

\* two callers in the session methods of one client at the same time
SpecThreads == InitThreads /\ [][NextThreads]_vars

\* ------------------------------------------------ _authenticate_http_server
\* _authenticate_http_server(server_name, phone_number) stores a pending record
\* of its own (line 428) and then waits for the reply to its POST to /login
\* (line 441); the record is in pending_auth while the server handles the POST.
\* The call is two steps, the second of which is the only step that can follow
\* the first.

\* the pending record of lines 428-432: it has no timestamp
DirectPendingRecord(sid, phone) ==
    [session_id |-> sid, phone_number |-> phone, status |-> "pending"]

\* lines 420-441, up to the POST: self.connected_servers[server_name] raises
\* KeyError for a server that is not connected, and the except clause of
\* lines 473-478 returns the failure
AuthenticateHttpServerPosts(pend, n, conn, s, phone) ==
    IF s \notin conn
    THEN [pending |-> pend, uuids |-> n, posted |-> FALSE, session_id |-> NoId,
          result |-> [success |-> FALSE, error |-> "KeyError"]]
    ELSE [pending |-> With(pend, s, DirectPendingRecord(MintId(n + 1), phone)),
          uuids |-> n + 1, posted |-> TRUE, session_id |-> MintId(n + 1),
          result |-> [success |-> FALSE, error |-> "KeyError"]]

\* lines 441-478, from the reply to the POST
AuthenticateHttpServerReplied(pend, auth, s, session_id, phone, reg, t) ==
    CASE reg = "ok" ->
            [pending |-> Without(pend, s),
             auth |-> With(auth, s, AuthRecord(session_id, phone, t)),
             result |-> [success |-> TRUE, session_id |-> session_id]]
      [] reg = "rejected" ->
            [pending |-> pend, auth |-> auth,
             result |-> [success |-> FALSE, error |-> "Authentication failed"]]
      [] OTHER ->
            [pending |-> pend, auth |-> auth,
             result |-> [success |-> FALSE, error |-> "raised"]]

DoAuthenticateHttpServerPosts(s, phone) ==
    /\ ret = Idle
    /\ \E r \in {AuthenticateHttpServerPosts(pending_auth, uuids, connected_servers,
                                         s, phone)} :
       /\ r.uuids <= MaxIds
       /\ pending_auth' = r.pending
       /\ uuids' = r.uuids
       /\ ret' = IF r.posted
                 THEN [op |-> "_authenticate_http_server", pc |-> "post", server |-> s,
                       phone |-> phone, session_id |-> r.session_id, before |-> Before]
                 ELSE [op |-> "_authenticate_http_server", server |-> s,
                       phone |-> phone, session_id |-> r.session_id, before |-> Before,
                       result |-> r.result]
    /\ UNCHANGED <<servers, authenticated_sessions, now, ticks, unswept, issued,
                   connection_vars>>

DoAuthenticateHttpServerReplied(reg) ==
    /\ ret # Idle
    /\ "pc" \in DOMAIN ret
    /\ \E r \in {AuthenticateHttpServerReplied(pending_auth, authenticated_sessions,
                                           ret.server, ret.session_id, ret.phone,
                                           reg, now)} :
       /\ pending_auth' = r.pending
       /\ authenticated_sessions' = r.auth
       /\ unswept' = IF r.result.success THEN With(unswept, ret.server, now) ELSE unswept
       /\ issued' = IF r.result.success THEN Without(issued, ret.server) ELSE issued
       /\ ret' = [op |-> "_authenticate_http_server", server |-> ret.server,
                  phone |-> ret.phone, session_id |-> ret.session_id,
                  before |-> ret.before, result |-> r.result]
    /\ UNCHANGED <<servers, now, ticks, uuids, connection_vars>>

\* connect_to_server on an HTTP server
DoConnectHttpServer(s, health) ==
    /\ IsHttp(s)
    /\ DoConnectToServer(s, "runs", "ok", health)

InitAuthenticate ==
    /\ servers = <<FI_MCP>>
    /\ pending_auth = EmptyMap
    /\ authenticated_sessions = EmptyMap
    /\ now = 0
    /\ ticks = 0
    /\ uuids = 0
    /\ unswept = EmptyMap
    /\ issued = EmptyMap
    /\ ret = Idle
    /\ InitConnections

NextAuthenticate ==
    \/ \E d \in TickSteps \cup ExpirySteps : Tick(d)
    \/ Return
    \/ \E s \in Configured(servers), health \in HealthReplies : DoConnectHttpServer(s, health)
    \/ \E s \in Configured(servers), phone \in PhoneNumbers :
          DoAuthenticateHttpServerPosts(s, phone)
    \/ \E reg \in RegisterReplies : DoAuthenticateHttpServerReplied(reg)
    \/ \E s \in Configured(servers), phone \in PhoneNumbers, resp \in Responses :
          DoGenerateAuthSession(s, phone, resp)
    \/ \E s \in Configured(servers), sid \in SessionIdArgs :
          \E reg \in RegisterRepliesAt(s, sid) : DoMarkSessionAuthenticated(s, sid, reg)
    \/ \E s \in Configured(servers) : DoIsAuthenticated(s)
    \/ \E s \in Configured(servers) : DoGetAuthenticationStatus(s)
    \/ DoCleanupExpiredSessions
    \/ \E tl \in ToolNames, resp \in Responses : DoExecuteToolForGemini(Join(FI_MCP, tl), resp)

\* one HTTP server and every way of authenticating with it, one call at a time
SpecAuthenticate == InitAuthenticate /\ [][NextAuthenticate]_vars

\* ----------------------------------------------------- get_tools_for_gemini
\* the loop of lines 697-705 from position i of all_tools.items(), whose order
\* is the order of self.servers: one declaration per tool, named
\* f"{server_name}_{tool['name']}"
RECURSIVE GeminiToolsFrom(_, _, _)
GeminiToolsFrom(all_tools, srv, i) ==
    IF i > Len(srv) THEN <<>>
    ELSE [j \in 1..Len(all_tools[srv[i]]) |->
             [name |-> Join(srv[i], all_tools[srv[i]][j].name),
              description |-> all_tools[srv[i]][j].description,
              parameters |-> all_tools[srv[i]][j].input_schema]]
         \o GeminiToolsFrom(all_tools, srv, i + 1)

\* get_tools_for_gemini(): discovery on every server, then the declarations
GetToolsForGemini(st, srv, env) ==
    LET r == GetAllAvailableTools(st, srv, env)
    IN [st |-> r.st, outcome |-> r.outcome, all_tools |-> r.value,
        value |-> IF r.outcome = "returned" THEN GeminiToolsFrom(r.value, srv, 1)
                  ELSE <<>>]

DoGetToolsForGemini(env) ==
    /\ ret = Idle
    /\ \E r \in {GetToolsForGemini(BeforeConn, servers, env)} :
       /\ sessions' = r.st.sessions
       /\ connected_servers' = r.st.connected
       /\ server_processes' = r.st.procs
       /\ Len(r.st.children) <= MaxChildren
       /\ children' = r.st.children
       /\ ret' = [op |-> "get_tools_for_gemini", env |-> env, before |-> BeforeConn,
                  outcome |-> r.outcome, all_tools |-> r.all_tools, result |-> r.value]
    /\ UNCHANGED <<servers, pending_auth, authenticated_sessions, now, ticks, uuids,
                   unswept, issued, pipe, calls>>

\* the names get_tools_for_gemini exposes when every server lists its tools:
\* the function names Gemini hands back to execute_tool_for_gemini
ExposedNames(srv) ==
    LET all_tools == [s \in Configured(srv) |-> ListedTools(s)]
        decls == GeminiToolsFrom(all_tools, srv, 1)
    IN {decls[k].name : k \in 1..Len(decls)}

NextNames ==
    \/ Return
    \/ \E env \in DiscoveryEnvs : DoGetToolsForGemini(env)
    \/ /\ ret = Idle
       /\ \E fn \in ExposedNames(servers), resp \in Responses :
             DoExecuteToolForGemini(fn, resp)

\* tools exposed to Gemini and called back by their exposed names, under
\* either key order of the configuration
SpecNames == InitAnyOrder /\ [][NextNames]_vars

\* ------------------------------------------------------------------ cleanup
\* the subprocess the handle stored for s refers to: the one spawned last for s
\* (line 63 follows the Popen of line 56)
HandleOf(kids, s) ==
    CHOOSE i \in 1..Len(kids) :
        kids[i].server = s /\ \A j \in (i + 1)..Len(kids) : kids[j].server # s

\* lines 757-762 on one handle: terminate(), wait(timeout=5) and, when the wait
\* raises because the process ignores the signal, kill(). A process that has
\* exited stays as it is.
StopProcess(state, ignores_terminate) ==
    IF state # "running" THEN state
    ELSE IF ignores_terminate THEN "killed" ELSE "terminated"

\* the loop of lines 756-762 over self.server_processes.items(): stubborn are
\* the servers whose process ignores terminate()
StopProcesses(procs, kids, stubborn) ==
    LET handles == {HandleOf(kids, s) : s \in DOMAIN procs}
        owner(i) == kids[i].server
    IN [procs |-> [s \in DOMAIN procs |-> StopProcess(procs[s], s \in stubborn)],
        children |-> [i \in 1..Len(kids) |->
                         IF i \in handles
                         THEN Child(owner(i), StopProcess(kids[i].state,
                                                          owner(i) \in stubborn))
                         ELSE kids[i]]]

\* how exit_stack.aclose() ends (line 764): it returns, or an exit of one of the
\* entered contexts raises
ClosingOutcomes == {"returned", "raised"}

\* cleanup(): the dicts keep their entries
DoCleanup(stubborn, closing) ==
    /\ ret = Idle
    /\ \E r \in {StopProcesses(server_processes, children, stubborn)} :
       /\ server_processes' = r.procs
       /\ children' = r.children
    /\ ret' = [op |-> "cleanup", stubborn |-> stubborn, before |-> BeforeConn,
               outcome |-> closing]
    /\ UNCHANGED <<servers, pending_auth, authenticated_sessions, now, ticks, uuids,
                   unswept, issued, sessions, connected_servers, pipe, calls>>

\* cleanup closes the exit stack, so it is the last call made on a client
ReturnBeforeCleanup ==
    /\ ret.op # "cleanup"
    /\ Return

InitCleanup ==
    /\ servers = <<LOCAL_TOOLS>>
    /\ pending_auth = EmptyMap
    /\ authenticated_sessions = EmptyMap
    /\ now = 0
    /\ ticks = 0
    /\ uuids = 0
    /\ unswept = EmptyMap
    /\ issued = EmptyMap
    /\ ret = Idle
    /\ InitConnections

NextCleanup ==
    \/ ReturnBeforeCleanup
    \/ \E s \in Configured(servers), cmd \in Commands, health \in HealthReplies :
          \E hs \in Handshakes(cmd) : DoConnectToServer(s, cmd, hs, health)
    \/ \E env \in DiscoveryEnvs : DoGetAllAvailableTools(env)
    \/ \E fn \in StdioFunctionNames, cmd \in Commands, reply \in SessionReplies :
          \E hs \in Handshakes(cmd) : DoExecuteToolForGeminiStdio(fn, cmd, hs, reply)
    \/ \E stubborn \in SUBSET Configured(servers), closing \in ClosingOutcomes :
          DoCleanup(stubborn, closing)

\* a client with one stdio server, from its construction to its cleanup
SpecCleanup == InitCleanup /\ [][NextCleanup]_vars

\* ===================================================================== claims

\* ---- C1 ----------------------------------------------------------------
\* C1: a second generate_auth_session for a server, with no successful
\* mark_session_authenticated since the first, returns the session_id and the
\* login_url the first returned, and the pending record keeps its session_id,
\* whatever the remote server answers to the probing call.
C1_GenerateIsIdempotent ==
    (ret.op = "generate_auth_session" /\ ret.server \in DOMAIN ret.before.issued)
    => /\ ret.result.session_id = ret.before.issued[ret.server].session_id
       /\ ret.result.login_url = ret.before.issued[ret.server].login_url
       /\ pending_auth[ret.server].session_id
             = ret.before.pending[ret.server].session_id

\* ---- C2 ----------------------------------------------------------------
\* the case of C2: no pending record for the server, or one whose session_id
\* differs from the id supplied
C2_NoMatch ==
    /\ ret.op = "mark_session_authenticated"
    /\ \/ ret.server \notin DOMAIN ret.before.pending
       \/ /\ ret.session_id # NoId
          /\ ret.before.pending[ret.server].session_id # ret.session_id

\* C2: mark_session_authenticated(server, sid) returns success=false when the
\* server has no pending record or the pending session_id differs from sid, and
\* then leaves pending_auth and authenticated_sessions as they were, for every
\* server.
C2_MarkRejectsAndKeepsMaps ==
    C2_NoMatch
    => /\ ret.result.success = FALSE
       /\ pending_auth = ret.before.pending
       /\ authenticated_sessions = ret.before.auth

\* a wrong id is supplied while the server has a pending record and another
\* server is authenticated
C2_Witness ==
    /\ C2_NoMatch
    /\ ret.server \in DOMAIN ret.before.pending
    /\ ret.session_id \in {MintId(n) : n \in 1..uuids}
    /\ DOMAIN ret.before.auth # {}

\* ---- C3 ----------------------------------------------------------------
\* C3: when mark_session_authenticated(server, sid) returns success=true, right
\* after the call authenticated_sessions[server] holds session_id = sid (the
\* pending id when sid is None), status "authenticated" and the time of the
\* call as timestamp, and pending_auth has no entry for the server.
C3_MarkMovesRecord ==
    (ret.op = "mark_session_authenticated" /\ ret.result.success)
    => LET s == ret.server
           sid == IF ret.session_id = NoId
                  THEN ret.before.pending[s].session_id ELSE ret.session_id
       IN /\ s \in DOMAIN authenticated_sessions
          /\ authenticated_sessions[s].session_id = sid
          /\ authenticated_sessions[s].status = "authenticated"
          /\ authenticated_sessions[s].timestamp = ret.before.now
          /\ s \notin DOMAIN pending_auth

\* a successful callback with an explicit id, made after the clock advanced past
\* the time the pending record was stored
C3_Witness ==
    /\ ret.op = "mark_session_authenticated"
    /\ ret.result.success
    /\ ret.session_id # NoId
    /\ ret.before.now > ret.before.pending[ret.server].timestamp

\* ---- C4 ----------------------------------------------------------------
\* C4: in every reachable state no server has both a pending_auth entry and an
\* authenticated_sessions entry.
C4_MapsMutuallyExclusive ==
    DOMAIN pending_auth \cap DOMAIN authenticated_sessions = {}

\* ---- C5 ----------------------------------------------------------------
\* the configured names S with function_name.startswith(S + "_")
MatchingServers(fn, srv) ==
    {srv[i] : i \in {j \in 1..Len(srv) : StartsWithPrefix(fn, srv[j])}}

\* C5: execute_tool_for_gemini dispatches a prefixed name to the longest
\* configured server name that prefixes it, with the remainder as the tool,
\* whatever the key order of the configuration.
C5_LongestPrefixWins ==
    (ret.op = "execute_tool_for_gemini"
        /\ MatchingServers(ret.function_name, servers) # {})
    => /\ ret.result.server \in MatchingServers(ret.function_name, servers)
       /\ \A m \in MatchingServers(ret.function_name, servers) :
             Len(m) <= Len(ret.result.server)
       /\ Join(ret.result.server, ret.result.tool) = ret.function_name

\* ---- C6 ----------------------------------------------------------------
\* C6: when _call_http_tool returns success=false (JSON-RPC error, timeout,
\* network error), the envelope execute_tool_for_gemini returns has
\* success=false.
C6_TransportFailureIsReported ==
    (ret.op = "execute_tool_for_gemini" /\ ~ret.transport.success)
    => ~ret.result.success

\* ---- C7 ----------------------------------------------------------------
\* a tool call (direct or the probing call of generate_auth_session) answered
\* with 400 "Invalid session ID"
C7_InvalidSessionAnswered ==
    /\ ret.op \in {"execute_tool_for_gemini", "generate_auth_session"}
    /\ ret.resp.kind = "invalid_session"

\* C7: on a 400 "Invalid session ID" reply _call_http_tool returns an
\* auth-required result (status login_required, success not false) whose
\* login_url is non-empty and carries token=<session_id> for the session_id of
\* the same result, and that session_id is the server's pending session_id
\* after the call.
C7_InvalidSessionYieldsLoginUrl ==
    C7_InvalidSessionAnswered
    => LET c == ret.transport.content
       IN /\ ret.transport.success
          /\ c.py = "dict"
          /\ c.d.status = "login_required"
          /\ c.d.login_url # EmptyUrl
          /\ c.d.login_url.path = "/wealth-mcp-login"
          /\ c.d.login_url.token = c.d.session_id
          /\ ret.server \in DOMAIN pending_auth
          /\ pending_auth[ret.server].session_id = c.d.session_id

\* the 400 answers a tool call that reused the id of an existing pending record
C7_Witness ==
    /\ C7_InvalidSessionAnswered
    /\ ret.op = "execute_tool_for_gemini"
    /\ ret.server \in DOMAIN ret.before.pending
    /\ ret.sent = ret.before.pending[ret.server].session_id

\* ---- C8 ----------------------------------------------------------------
\* is_authenticated is called on a server whose authenticated record has age a
C8_CalledAtAge(a) ==
    /\ ret.op = "is_authenticated"
    /\ ret.server \in DOMAIN ret.before.auth
    /\ ret.before.now - ret.before.auth[ret.server].timestamp = a

\* C8: for a session created at t0 and not replaced, is_authenticated returns
\* true at t0 + T - 1 and false at t0 + T + 1.
C8_TrueBeforeFalseAfter ==
    /\ C8_CalledAtAge(session_timeout - 1) => ret.result = TRUE
    /\ C8_CalledAtAge(session_timeout + 1) => ret.result = FALSE

\* is_authenticated is called one second after the timeout elapsed
C8_Witness == C8_CalledAtAge(session_timeout + 1)

\* ---- C9 ----------------------------------------------------------------
\* cleanup_expired_sessions is the first cleanup call made after the session
\* of server s, created with ttl T and not re-authenticated, expired
C9_FirstCleanupAfterExpiry(s) ==
    /\ ret.op = "cleanup_expired_sessions"
    /\ s \in DOMAIN ret.before.unswept
    /\ ret.before.now - ret.before.unswept[s] > session_timeout

\* C9 as claimed: that cleanup call returns a count >= 1, whichever readers
\* ran on the server between expiry and the call.
C9_CleanupAlwaysCounts ==
    \A s \in ServerNames : C9_FirstCleanupAfterExpiry(s) => ret.result >= 1

\* C9 amended: after that cleanup call the record is gone; the call removes and
\* counts it (count >= 1) when it is still stored, that is, when no reader has
\* evicted it since it expired.
C9_CleanupRemovesWhatIsLeft ==
    \A s \in ServerNames :
        C9_FirstCleanupAfterExpiry(s)
        => /\ s \notin DOMAIN authenticated_sessions
           /\ s \in DOMAIN ret.before.auth => ret.result >= 1

\* the cleanup call finds the expired record still stored
C9_Witness ==
    \E s \in ServerNames :
        /\ C9_FirstCleanupAfterExpiry(s)
        /\ s \in DOMAIN ret.before.auth

\* ---- C10 ---------------------------------------------------------------
\* C10: every reader (is_authenticated, get_authentication_status, the session
\* selection of _call_http_tool) returns, where the server's authenticated
\* record is expired, what it returns where that record is absent.
C10_ExpiredReadsAsAbsent ==
    \A s \in DOMAIN authenticated_sessions :
        IsSessionExpired(authenticated_sessions[s], now)
        => LET absent == Without(authenticated_sessions, s)
           IN /\ IsAuthenticatedValue(authenticated_sessions, s, now)
                    = IsAuthenticatedValue(absent, s, now)
              /\ GetAuthenticationStatusValue(authenticated_sessions, pending_auth, s, now)
                    = GetAuthenticationStatusValue(absent, pending_auth, s, now)
              /\ SelectSession(pending_auth, authenticated_sessions, uuids, s, FALSE, now).sent
                    = SelectSession(pending_auth, absent, uuids, s, FALSE, now).sent

\* ---- C11 ---------------------------------------------------------------
\* execute_tool_for_gemini came back to its caller (it is not waiting on a
\* handshake that never ends)
C11_ExecuteCameBack ==
    /\ ret.op = "execute_tool_for_gemini"
    /\ "outcome" \in DOMAIN ret => ret.outcome # "hung"

\* C11: execute_tool_for_gemini raises nothing to its caller: for every
\* function name and every transport outcome (name of no server, no server
\* configured, command missing, process gone, failed handshake, failed call,
\* network error, malformed reply) what it returns is an envelope with the keys
\* success, server and tool.
C11_ExecuteAlwaysReturnsEnvelope ==
    C11_ExecuteCameBack
    => /\ "outcome" \in DOMAIN ret => ret.outcome = "returned"
       /\ {"success", "server", "tool"} \subseteq DOMAIN ret.result

\* the call went to a stdio server whose command does not exist
C11_Witness ==
    /\ C11_ExecuteCameBack
    /\ ret.server = LOCAL_TOOLS
    /\ ret.cmd = "missing"
    /\ LOCAL_TOOLS \notin ret.before.sessions
    /\ ret.result.success = FALSE

\* ---- C12 ---------------------------------------------------------------
\* a callback succeeds for a server that already has an authenticated record
C12_Replaces ==
    /\ ret.op = "mark_session_authenticated"
    /\ ret.result.success
    /\ ret.server \in DOMAIN ret.before.auth

\* a tool call to a server whose authenticated record has not expired
C12_ToolCallWhileAuthenticated ==
    /\ ret.op = "execute_tool_for_gemini"
    /\ ret.server \in DOMAIN ret.before.auth
    /\ ~IsSessionExpired(ret.before.auth[ret.server], ret.before.now)

\* C12: a server has one authenticated record at most (the map has one entry
\* per server name); a successful mark_session_authenticated for a server that
\* has one puts the record of the pending session in its place, whoever owned
\* the old one; and a tool call to the server, which takes no owner, carries
\* the session_id of the record stored at that time.
C12_NewSessionReplacesOld ==
    /\ C12_Replaces
       => LET s == ret.server
          IN authenticated_sessions[s]
                = AuthRecord(ret.before.pending[s].session_id,
                             ret.before.pending[s].phone_number, ret.before.now)
    /\ C12_ToolCallWhileAuthenticated
       => ret.sent = ret.before.auth[ret.server].session_id

\* the record replaced belongs to another phone number and has another id
C12_Witness ==
    /\ C12_Replaces
    /\ ret.before.auth[ret.server].phone_number
          # authenticated_sessions[ret.server].phone_number
    /\ ret.before.auth[ret.server].session_id
          # authenticated_sessions[ret.server].session_id

\* ---- C13 ---------------------------------------------------------------
\* C13: every successful result of generate_auth_session has a login_url whose
\* token parameter is the session_id of the same result, and that session_id is
\* the server's pending session_id after the call, whatever login_url a
\* login_required reply carried.
C13_LoginUrlTokenIsSessionId ==
    (ret.op = "generate_auth_session" /\ ret.result.success)
    => /\ ret.result.login_url.token = ret.result.session_id
       /\ ret.server \in DOMAIN pending_auth
       /\ pending_auth[ret.server].session_id = ret.result.session_id

\* ---- C14 ---------------------------------------------------------------
\* the JSON text of a value: the encoder, written without the decoder
RECURSIVE C14_Dumps(_), C14_DumpItems(_)
C14_Dumps(v) ==
    CASE v.py = "int" -> <<"1">>
      [] v.py = "list" -> <<"[">> \o C14_DumpItems(v.items) \o <<"]">>
      [] OTHER -> IF DOMAIN v.d = {} THEN <<"{", "}">>
                  ELSE <<"{", "a:">> \o C14_Dumps(v.d["a"]) \o <<"}">>

C14_DumpItems(items) ==
    IF items = <<>> THEN <<>>
    ELSE IF Len(items) = 1 THEN C14_Dumps(items[1])
    ELSE C14_Dumps(items[1]) \o <<",">> \o C14_DumpItems(Tail(items))

\* the values of nesting depth k at most, with arrays of two items at most
RECURSIVE C14_ValuesOfDepth(_)
C14_ValuesOfDepth(k) ==
    LET flat == {PyInt, PyList(<<>>), Dict(EmptyMap)}
    IN IF k = 0 THEN flat
       ELSE LET sub == C14_ValuesOfDepth(k - 1)
            IN flat \cup {PyList(<<v>>) : v \in sub}
                    \cup {PyList(<<v, w>>) : v \in sub, w \in sub}
                    \cup {Dict([a |-> v]) : v \in sub}

\* every value whose text has MaxTextLen + 1 tokens at most is among these
C14_Values == C14_ValuesOfDepth(2)

\* the texts that are valid JSON: the texts of values
C14_JsonTexts == {C14_Dumps(v) : v \in C14_Values}

\* a tool call answered 200 with a text content item
C14_TextReply ==
    /\ ret.op = "execute_tool_for_gemini"
    /\ ret.resp.kind = "text"

\* C14: for a 200 reply whose content[0] is a text item, _call_http_tool
\* returns success=true with the value the text is the JSON of when the text
\* is valid JSON ('{"a":1}' gives {a: 1}) and with the text itself when it is
\* not ('plain'); it never fails on text that is not JSON.
C14_TextIsDecodedOrKept ==
    C14_TextReply
    => LET tx == ret.resp.text
           c == ret.transport.content
       IN /\ ret.transport.success
          /\ tx \in C14_JsonTexts => (c.py # "str" /\ C14_Dumps(c) = tx)
          /\ tx \notin C14_JsonTexts => c = Str(tx)
          /\ tx = <<"{", "a:", "1", "}">> => c = Dict([a |-> PyInt])
          /\ tx = <<"x">> => c = Str(<<"x">>)
          /\ ret.result.result = c

\* the text is '{"a":1}'
C14_Witness ==
    /\ C14_TextReply
    /\ ret.resp.text = <<"{", "a:", "1", "}">>
    /\ ret.transport.content.py = "dict"

\* ---- C15 ---------------------------------------------------------------
\* get_all_available_tools came back to its caller
C15_DiscoveryCameBack ==
    /\ ret.op = "get_all_available_tools"
    /\ ret.outcome # "hung"

\* get_server_tools fails at server s under the inputs of this discovery
C15_FailsAt(s) ==
    LET e == ret.env[s]
    IN GetServerTools(ret.before, s, e.cmd, e.hs, e.listing).outcome = "raised"

\* the inputs of this discovery with server s answering without failure
C15_Repaired(s) ==
    [ret.env EXCEPT ![s] = [cmd |-> "runs", hs |-> "ok", listing |-> "ok"]]

C16_FailedStartEndsConnect ==
    (/\ ret.op = "connect_to_server"
     /\ ret.server \in StdioServerNames
     /\ ret.server \notin ret.before.sessions
     /\ ret.cmd \in {"missing", "exits"})
    => /\ ret.outcome = "raised"
       /\ ~ret.handshake
       /\ ret.server \notin sessions
       /\ ret.server \notin connected_servers

\* ---- C17 ---------------------------------------------------------------
\* C17: on the session of a stdio server one request at most is written and
\* not yet answered, however call_tool and get_server_tools are called
\* concurrently.
C17_OneRequestInFlight ==
    \A s \in DOMAIN pipe : Cardinality(pipe[s]) <= 1

\* ---- C18 ---------------------------------------------------------------
\* caller c is inside, or just out of, mark_session_authenticated
C18_InMark(c) ==
    /\ calls[c] # NoCall
    /\ calls[c].op = "mark_session_authenticated"

\* the callback of caller c reported success
C18_Succeeded(c) ==
    /\ C18_InMark(c)
    /\ calls[c].pc = "done"
    /\ calls[c].result.success

\* C18: under every interleaving with another mark_session_authenticated or a
\* generate_auth_session on the same server, mark_session_authenticated raises
\* nothing, deletes no pending record whose session_id is not the one it
\* authenticated, and of two concurrent callbacks for one session_id at most
\* one reports success.
C18_MarkIsAtomic ==
    /\ \A c \in Callers : C18_InMark(c) => calls[c].pc # "raised"
    /\ \A c \in Callers :
          C18_Succeeded(c) => calls[c].deleted = calls[c].result.session_id
    /\ \A c, e \in Callers :
          (c # e /\ C18_Succeeded(c) /\ C18_Succeeded(e))
          => calls[c].result.session_id # calls[e].result.session_id

\* ---- C19 ---------------------------------------------------------------
\* caller c is inside, or just out of, a call of is_authenticated,
\* get_authentication_status or cleanup_expired_sessions that started while
\* the authenticated session was expired
C19_StartedOnExpired(c) ==
    /\ calls[c] # NoCall
    /\ calls[c].op \in Readers \cup {"cleanup_expired_sessions"}
    /\ IF calls[c].pc \in {"done", "raised"} THEN calls[c].args.stale.expired
       ELSE calls[c].stale.expired

\* the call of caller c returned "authenticated" from the expired record
C19_SawExpiredAsAuthenticated(c) ==
    /\ calls[c].pc = "done"
    /\ calls[c].op \in Readers
    /\ "session_info" \in DOMAIN calls[c].args
    /\ calls[c].args.session_info = calls[c].args.stale.record
    /\ IF calls[c].op = "is_authenticated" THEN calls[c].result = TRUE
       ELSE calls[c].result.status = "authenticated"

\* C19: when is_authenticated, get_authentication_status and
\* cleanup_expired_sessions run concurrently on a server whose authenticated
\* session has expired, each call ends without raising (the record is deleted
\* once, no call deletes what is already gone) and none reports the expired
\* session as authenticated.
C19_EvictionIsAtomic ==
    \A c \in Callers :
        C19_StartedOnExpired(c)
        => /\ calls[c].pc # "raised"
           /\ ~C19_SawExpiredAsAuthenticated(c)

\* ---- C20 ---------------------------------------------------------------
\* C20: is_authenticated(server) returns true exactly when an authenticated
\* record is stored for the server and now - created_at < ttl, so false at an
\* age of exactly ttl; and when it returns false on an expired record the
\* record is gone from authenticated_sessions after the call.
C20_TrueIffYoungerThanTtl ==
    ret.op = "is_authenticated"
    => LET s == ret.server
           stored == s \in DOMAIN ret.before.auth
       IN /\ ret.result
             = (stored /\ ret.before.now - ret.before.auth[s].timestamp < session_timeout)
          /\ (stored /\ ~ret.result) => s \notin DOMAIN authenticated_sessions

\* ---- C21 ---------------------------------------------------------------
\* a call that authenticated a server: mark_session_authenticated or
\* _authenticate_http_server came back with success for it
C21_Authenticates(s) ==
    /\ ret' # Idle
    /\ ret'.op \in {"mark_session_authenticated", "_authenticate_http_server"}
    /\ "result" \in DOMAIN ret'
    /\ ret'.result.success
    /\ ret'.server = s

\* one step of the client, seen at one server's authenticated record
C21_Step(s) ==
    /\ \* the record is created, or replaced by another one
       (/\ s \in DOMAIN authenticated_sessions'
        /\ (s \in DOMAIN authenticated_sessions =>
               authenticated_sessions'[s] # authenticated_sessions[s]))
       => /\ s \in DOMAIN pending_auth
          /\ pending_auth[s].session_id = authenticated_sessions'[s].session_id
          /\ C21_Authenticates(s)
    /\ \* the record disappears
       (s \in DOMAIN authenticated_sessions /\ s \notin DOMAIN authenticated_sessions')
       => IsSessionExpired(authenticated_sessions[s], now)

\* C21: in every step that creates or replaces a server's authenticated record,
\* the new record's session_id is the session_id of the server's pending record
\* in the state before the step and the step is a successful authentication;
\* in every step that removes a server's authenticated record, the record was
\* expired.
C21_SessionStateMachine == [][\A s \in ServerNames : C21_Step(s)]_vars

\* a successful mark_session_authenticated has replaced an authenticated record
\* that had not expired by a record with the pending session_id
C21_Witness ==
    /\ ret # Idle
    /\ ret.op = "mark_session_authenticated"
    /\ ret.result.success
    /\ ret.server \in DOMAIN ret.before.auth
    /\ ~IsSessionExpired(ret.before.auth[ret.server], ret.before.now)
    /\ ret.before.auth[ret.server].session_id # ret.result.session_id
    /\ authenticated_sessions[ret.server].session_id
          = ret.before.pending[ret.server].session_id

\* ---- C22 ---------------------------------------------------------------
\* C22: a tool call on an HTTP server makes exactly 2 POST attempts when the
\* first attempt fails with a network error, and exactly 1 in every other case
\* (JSON-RPC error, auth-required reply, timeout, success).
C22_OneRetryOnNetworkError ==
    (/\ ret # Idle
     /\ ret.op = "execute_tool_for_gemini"
     /\ ret.sent # NoId)
    => ret.posts = IF ret.resp.kind = "network_error" THEN 2 ELSE 1

\* ---- C23 ---------------------------------------------------------------
\* the session ids stored in the maps a call started from
C23_StoredIds(b) ==
    {b.pending[x].session_id : x \in DOMAIN b.pending}
    \cup {b.auth[x].session_id : x \in DOMAIN b.auth}

\* the header is the pending session_id, or the first id this call drew
C23_PendingOrMinted(s, b) ==
    IF s \in DOMAIN b.pending
    THEN ret.sent = b.pending[s].session_id
    ELSE /\ ret.sent = MintId(b.uuids + 1)
         /\ ret.sent \notin C23_StoredIds(b)
         /\ uuids > b.uuids

\* an id this call drew is the server's pending record after the call
C23_MintedIsStored(s, b) ==
    s \notin DOMAIN b.pending
    => (s \in DOMAIN pending_auth /\ pending_auth[s].session_id = ret.sent)

\* the header is the authenticated session_id if the server has an unexpired
\* authenticated record, and else the pending or minted one
C23_AuthenticatedFirst(s, b) ==
    IF s \in DOMAIN b.auth /\ ~IsSessionExpired(b.auth[s], b.now)
    THEN ret.sent = b.auth[s].session_id
    ELSE C23_PendingOrMinted(s, b) /\ C23_MintedIsStored(s, b)

\* a tools/call POST was made by the tool call of execute_tool_for_gemini
C23_ToolCall ==
    ret # Idle /\ ret.op = "execute_tool_for_gemini" /\ ret.sent # NoId

\* C23: every tool call dispatched to an HTTP server carries the authenticated
\* session_id if the server has an unexpired authenticated record, otherwise the
\* pending session_id if a pending record exists, otherwise a freshly minted id
\* that is the server's pending record; so a call to an unauthenticated server
\* with a pending record draws no new id.
C23_HeaderChoice ==
    C23_ToolCall
    => /\ C23_AuthenticatedFirst(ret.server, ret.before)
       /\ ret.server \in DOMAIN ret.before.pending => uuids = ret.before.uuids

\* a tool call to a server with an unexpired authenticated record and a pending
\* record of another id has carried the authenticated id
C23_Witness ==
    /\ C23_ToolCall
    /\ ret.server \in DOMAIN ret.before.auth
    /\ ~IsSessionExpired(ret.before.auth[ret.server], ret.before.now)
    /\ ret.server \in DOMAIN ret.before.pending
    /\ ret.before.pending[ret.server].session_id
          # ret.before.auth[ret.server].session_id
    /\ ret.sent = ret.before.auth[ret.server].session_id

\* ---- C24 ---------------------------------------------------------------
\* a tool call to a server with an unexpired authenticated record was answered
\* with 400 "Invalid session ID"
C24_Rejected ==
    /\ ret # Idle
    /\ ret.op = "execute_tool_for_gemini"
    /\ ret.sent # NoId
    /\ ret.resp.kind = "invalid_session"
    /\ ret.server \in DOMAIN ret.before.auth
    /\ ~IsSessionExpired(ret.before.auth[ret.server], ret.before.now)

\* the rejected call carried the authenticated session_id, came back as
\* auth-required, and left the authenticated record as it was
C24_RejectedIsKept ==
    C24_Rejected
    => /\ ret.sent = ret.before.auth[ret.server].session_id
       /\ ret.result.success
       /\ ret.result.result.py = "dict"
       /\ ret.result.result.d.status = "login_required"
       /\ ret.server \in DOMAIN authenticated_sessions
       /\ authenticated_sessions[ret.server] = ret.before.auth[ret.server]

\* a step changes or removes a server's authenticated record only if it is a
\* successful mark_session_authenticated with the pending session_id, or the
\* record has expired
C24_KeptUntil(s) ==
    (/\ s \in DOMAIN authenticated_sessions
     /\ ~IsSessionExpired(authenticated_sessions[s], now)
     /\ ~(/\ s \in DOMAIN authenticated_sessions'
          /\ authenticated_sessions'[s] = authenticated_sessions[s]))
    => /\ ret'.op = "mark_session_authenticated"
       /\ ret'.server = s
       /\ ret'.result.success
       /\ ret'.result.session_id = pending_auth[s].session_id

\* C24: a tool call that the server answers with 400 "Invalid session ID" while
\* the server's authenticated record is unexpired carries that record's
\* session_id, returns auth-required and keeps the record; and the record stays
\* as it is, so that every later tool call carries the same session_id, until
\* mark_session_authenticated succeeds with the pending id or the record expires.
C24_RejectedSessionIsKept ==
    []C24_RejectedIsKept /\ [][\A s \in ServerNames : C24_KeptUntil(s)]_vars

\* a tool call was rejected again with the session_id an earlier call had been
\* rejected with: the pending record was minted after the authentication
C24_Witness ==
    /\ C24_Rejected
    /\ ret.server \in DOMAIN ret.before.pending
    /\ ret.before.pending[ret.server].phone_number = "unknown"
    /\ ret.before.pending[ret.server].timestamp
          > ret.before.auth[ret.server].timestamp
    /\ ret.sent = ret.before.auth[ret.server].session_id
    /\ authenticated_sessions[ret.server] = ret.before.auth[ret.server]

\* ---- C25 ---------------------------------------------------------------
\* mark_session_authenticated matched the pending record and its POST to /login
\* was answered with another status than 200, or raised
C25_RegisterFailed ==
    /\ ret # Idle
    /\ ret.op = "mark_session_authenticated"
    /\ ret.reg \in {"rejected", "raises"}

\* C25: when mark_session_authenticated(server, sid) matches the pending record
\* and the register-session POST answers with a non-200 status or raises, the
\* call returns success = false and leaves pending_auth and
\* authenticated_sessions as they were, so that the same call made again, with
\* the POST answered 200, succeeds.
C25_FailedRegisterKeepsMaps ==
    C25_RegisterFailed
    => /\ ~ret.result.success
       /\ pending_auth = ret.before.pending
       /\ authenticated_sessions = ret.before.auth
       /\ MarkSessionAuthenticated(pending_auth, authenticated_sessions, ret.server,
                                   ret.session_id, "ok", now).result.success

\* the POST for a session_id given by the caller raised
C25_Witness ==
    /\ C25_RegisterFailed
    /\ ret.reg = "raises"
    /\ ret.session_id # NoId
    /\ ret.session_id = ret.before.pending[ret.server].session_id
    /\ ~ret.result.success

\* ---- C26 ---------------------------------------------------------------
\* execute_tool_for_gemini came back for a function name that starts with no
\* configured server name followed by "_"
C26_NoPrefixMatches ==
    /\ ret # Idle
    /\ ret.op = "execute_tool_for_gemini"
    /\ MatchingServers(ret.function_name, servers) = {}
    /\ "outcome" \in DOMAIN ret => ret.outcome # "hung"

\* the call went to server s under the whole function name: a POST was made for
\* an HTTP server; for a stdio server the envelope is the one call_tool(s,
\* function_name) gives
C26_DispatchedTo(s) ==
    /\ ret.result.server = s
    /\ ret.result.tool = ret.function_name
    /\ IF IsHttp(s)
       THEN ret.sent # NoId
       ELSE LET r == CallStdioTool(ret.before, s, ret.cmd, ret.hs, ret.reply)
            IN /\ ret.result.success = (r.outcome = "returned")
               /\ sessions = r.st.sessions
               /\ server_processes = r.st.procs

\* C26: when the function name starts with no configured server name followed
\* by "_", the call is dispatched to the first configured server with the whole
\* function name as the tool name; if no server is configured, and only then,
\* the call returns a failure envelope and contacts no server.
C26_FallbackToFirstServer ==
    C26_NoPrefixMatches
    => IF Len(servers) > 0
       THEN C26_DispatchedTo(servers[1])
       ELSE /\ ~ret.result.success
            /\ ret.result.server = NoName
            /\ "sent" \notin DOMAIN ret
            /\ BeforeConn = ret.before

\* the fallback sent the call to the stdio server that comes first in the
\* configuration, and the server answered it
C26_Witness ==
    /\ C26_NoPrefixMatches
    /\ servers = <<LOCAL_TOOLS, FI_MCP>>
    /\ ret.result.server = LOCAL_TOOLS
    /\ ret.result.tool = <<"other", "fetch", "net", "worth">>
    /\ ret.result.success

\* ---- C27 ---------------------------------------------------------------
\* mark_session_authenticated(server) came back from a call without session_id
C27_CalledWithNone ==
    /\ ret # Idle
    /\ ret.op = "mark_session_authenticated"
    /\ ret.session_id = NoId

\* what the call with the pending record's own session_id does from the same
\* maps, with the same answer to the POST
C27_WithPendingId ==
    MarkSessionAuthenticated(ret.before.pending, ret.before.auth, ret.server,
                             ret.before.pending[ret.server].session_id, ret.reg,
                             ret.before.now)

\* C27: mark_session_authenticated(server) without a session_id fails, for want
\* of a session_id, only when the server has no pending record; when it has one
\* the call returns what the call with the pending record's session_id returns
\* and leaves the maps as that call leaves them: with the POST answered 200 the
\* pending record becomes the authenticated record.
C27_NoneMeansPendingId ==
    C27_CalledWithNone
    => IF ret.server \notin DOMAIN ret.before.pending
       THEN /\ ~ret.result.success
            /\ pending_auth = ret.before.pending
            /\ authenticated_sessions = ret.before.auth
       ELSE /\ ret.result = C27_WithPendingId.result
            /\ pending_auth = C27_WithPendingId.pending
            /\ authenticated_sessions = C27_WithPendingId.auth
            /\ ret.reg = "ok"
               => /\ ret.result.success
                  /\ ret.result.session_id = ret.before.pending[ret.server].session_id
                  /\ ret.server \notin DOMAIN pending_auth
                  /\ authenticated_sessions[ret.server].session_id
                        = ret.before.pending[ret.server].session_id

\* a call without session_id has authenticated the pending session
C27_Witness ==
    /\ C27_CalledWithNone
    /\ ret.server \in DOMAIN ret.before.pending
    /\ ret.result.success
    /\ authenticated_sessions[ret.server].session_id
          = ret.before.pending[ret.server].session_id

\* ---- C28 ---------------------------------------------------------------
\* the (server, tool) pairs behind the declarations of one discovery result
C28_Pairs(all_tools) ==
    UNION {{<<s, all_tools[s][j].name>> : j \in 1..Len(all_tools[s])} :
              s \in DOMAIN all_tools}

\* the pairs discovered when every configured server lists its tools
C28_Discovered ==
    C28_Pairs([s \in Configured(servers) |-> ListedTools(s)])

\* C28: for every configured set of servers and every tool discovered on a
\* server, execute_tool_for_gemini resolves the exposed name
\* '<server>_<tool>' back to that (server, tool) pair, and the declarations
\* get_tools_for_gemini returns give no two distinct pairs the same name.
C28_NamespacingRoundTrips ==
    /\ (ret # Idle /\ ret.op = "execute_tool_for_gemini")
       => \A p \in C28_Discovered :
             Join(p[1], p[2]) = ret.function_name
             => (ret.result.server = p[1] /\ ret.result.tool = p[2])
    /\ (ret # Idle /\ ret.op = "get_tools_for_gemini")
       => \A p, q \in C28_Pairs(ret.all_tools) :
             Join(p[1], p[2]) = Join(q[1], q[2]) => p = q

\* ---- C29 ---------------------------------------------------------------
\* the servers whose authenticated record was older than the timeout when the
\* call started
C29_ExpiredAtCall ==
    {s \in DOMAIN ret.before.auth :
        ret.before.now - ret.before.auth[s].timestamp > session_timeout}

\* C29: cleanup_expired_sessions removes from authenticated_sessions exactly the
\* records that are expired when it is called, on every server, returns the
\* number of records it removed, and leaves every unexpired authenticated record
\* and the whole of pending_auth as they were.
C29_CleanupRemovesExactlyExpired ==
    (ret # Idle /\ ret.op = "cleanup_expired_sessions")
    => /\ DOMAIN authenticated_sessions = DOMAIN ret.before.auth \ C29_ExpiredAtCall
       /\ \A s \in DOMAIN authenticated_sessions :
             authenticated_sessions[s] = ret.before.auth[s]
       /\ ret.result = Cardinality(C29_ExpiredAtCall)
       /\ pending_auth = ret.before.pending

\* one call removed the expired record of one server and kept the unexpired
\* record of another
C29_Witness ==
    /\ ret # Idle
    /\ ret.op = "cleanup_expired_sessions"
    /\ ret.result = 1
    /\ C29_ExpiredAtCall # {}
    /\ DOMAIN authenticated_sessions # {}
    /\ DOMAIN authenticated_sessions \cap C29_ExpiredAtCall = {}

\* ---- C30 ---------------------------------------------------------------
\* cleanup() has completed
C30_CleanupCompleted ==
    /\ ret # Idle
    /\ ret.op = "cleanup"
    /\ ret.outcome = "returned"

\* C30: after cleanup() completes, every subprocess _start_server_process
\* spawned during the client's lifetime, those of earlier connection attempts
\* for the same server name included, has been terminated or killed: none is
\* left running.
C30_NoSubprocessLeftRunning ==
    C30_CleanupCompleted
    => \A i \in 1..Len(children) : children[i].state # "running"

====
